---- MODULE Spec2Model ----
(***************************************************************************)
(* Check-in verification flow of the attendance system: the session        *)
(* directory, the member directory, the attendance store, the wall clock,  *)
(* the public check-in handlers (getSessionInfo, validateSession,          *)
(* verifySecretAnswer, submitAttendance) and the admin operations that     *)
(* change what those handlers read.                                        *)
(*                                                                         *)
(* Time is in milliseconds, as in JavaScript Date arithmetic.  A handler   *)
(* is cut into one step per database round trip (each await of a prisma    *)
(* call); the synchronous code after an await belongs to the same step.    *)
(***************************************************************************)
EXTENDS Integers, Sequences, FiniteSets, TLC

VARIABLES now, sessions, members, attendance, pc, req, psess, pmem, result, resp, okLog,
          attempts, parseResult, updateData, pinLimiter

vars == <<now, sessions, members, attendance, pc, req, psess, pmem, result, resp, okLog,
          attempts, parseResult, updateData, pinLimiter>>

(***************************************************************************)
(* Bounds of the model.                                                    *)
(***************************************************************************)
MaxProcs == 2
StartT == 1000000

(***************************************************************************)
(* Program constants.                                                      *)
(***************************************************************************)
bufferMinutes == 5

BufferMs == bufferMinutes * 60 * 1000

EndT == StartT + 2 * 60 * 60 * 1000

Procs == 1..MaxProcs

\* The requests in flight: the submitAttendance calls of Procs and one admin
\* request.
AdminProc == MaxProcs + 1
AllProcs == Procs \cup {AdminProc}

\* The rows of the model's directories: two members and one session.  The
\* handlers treat each (session, member) pair on its own.
MemberIds == {1, 2}
SessionIds == {1}
UnknownSessionId == 1 + Cardinality(SessionIds)
ReqSessionIds == SessionIds \cup {UnknownSessionId}

\* The instants the wall clock is sampled at: both sides of every boundary
\* of the check-in window of a session that runs from StartT to EndT.
Instants ==
    { StartT - BufferMs - 60000, StartT - BufferMs - 1, StartT - BufferMs,
      StartT - 4 * 60000, StartT - 1, StartT, EndT, EndT + 1, EndT + 1000 }

FirstInstant == StartT - BufferMs - 60000

\* Before the window, two instants inside it, and after it.
CoarseInstants == { FirstInstant, StartT, EndT, EndT + 1 }

NoTime == 0 - 1

(***************************************************************************)
(* bcrypt: a one-way hash of the first 72 bytes of its input (the later    *)
(* bytes never enter the key schedule); compare(x, h) holds exactly when   *)
(* h is the hash of x.                                                     *)
(***************************************************************************)
\* bcrypt over the whole input, however long.
bcryptHashWhole(x) == <<"bcrypt", x>>

bcryptHash(x) == <<"bcrypt", SubSeq(x, 1, IF Len(x) > 72 THEN 72 ELSE Len(x))>>

bcryptCompare(x, h) == h = bcryptHash(x)

hashPin(pin) == bcryptHash(pin)

verifyPin(pin, hash) == bcryptCompare(pin, hash)

(***************************************************************************)
(* Strings are sequences of characters over a small alphabet.              *)
(***************************************************************************)
LowerChar(c) == IF c = "B" THEN "b" ELSE IF c = "R" THEN "r" ELSE c

toLowerCase(s) == [i \in 1..Len(s) |-> LowerChar(s[i])]

RECURSIVE trimStart(_)
trimStart(s) == IF s # <<>> /\ Head(s) = " " THEN trimStart(Tail(s)) ELSE s

RECURSIVE trimEnd(_)
trimEnd(s) ==
    IF s # <<>> /\ s[Len(s)] = " " THEN trimEnd(SubSeq(s, 1, Len(s) - 1)) ELSE s

trim(s) == trimEnd(trimStart(s))

\* answer.toLowerCase().trim(), as createSession, updateSession and
\* verifySecretAnswer apply it before bcrypt.
normalizeAnswer(s) == trim(toLowerCase(s))

StoredAnswer == <<"b", "r">>
AnswerInputs == { <<"b", "r">>, <<"B", "R">>, <<" ", "b", "r", " ">>, <<"r", "b">> }

\* Joi.string().trim().min(1).max(100), the schema of secretAnswer in
\* sessionCreate and sessionUpdate and of answer in checkinAnswer: the
\* value handed to the controller, and whether the input is accepted.
JoiAnswerValue(s) == trim(s)

JoiAnswerValid(s) == Len(JoiAnswerValue(s)) >= 1 /\ Len(JoiAnswerValue(s)) <= 100

\* hashedAnswer of createSession and updateSession for the body's
\* secretAnswer, as validated.
hashedAnswer(secretAnswer) == bcryptHash(trim(toLowerCase(JoiAnswerValue(secretAnswer))))

\* An answer of 73 characters: 72 times "a", then c.
LongAnswer(c) == [i \in 1..73 |-> IF i <= 72 THEN "a" ELSE c]

\* The secret answers given to sessions and the answers submitted in the
\* answer checks: short and long, in either case, padded, and blank.
SetAnswers == { StoredAnswer, <<" ", "B", "R">>, <<"r", "b">>, LongAnswer("b") }

VerifyAnswers == AnswerInputs \cup { LongAnswer("b"), LongAnswer("r"), <<" ">> }

\* A PIN is a string of digit characters; toString renders a number in
\* 10000..99999 as its five decimal digits.
DigitChars == <<"0", "1", "2", "3", "4", "5", "6", "7", "8", "9">>

DigitChar(d) == DigitChars[d + 1]

RECURSIVE toString(_)
toString(n) == IF n < 10 THEN <<DigitChar(n)>> ELSE Append(toString(n \div 10), DigitChar(n % 10))

PinOf(m) == toString(12344 + m)

UnknownPin == toString(99999)

MemberPins == {PinOf(m) : m \in MemberIds}

ReqPins == MemberPins \cup {UnknownPin}

(***************************************************************************)
(* Request validation (the validate middleware and its Joi schemas), run   *)
(* by the router before the controller.                                    *)
(***************************************************************************)
\* schemas.checkinSubmit: pin matches /^\d{5}$/.
checkinSubmit(pin) ==
    /\ Len(pin) = 5
    /\ \A i \in 1..Len(pin) : \E d \in 0..9 : pin[i] = DigitChar(d)

\* schemas.sessionIdParam: sessionId is a positive integer.
sessionIdParam(sid) == sid \in Int /\ sid > 0

\* PINs that are not five decimal digits: empty, too short, too long, a
\* letter among the digits, a padding blank.
MalformedPins ==
    { <<>>, toString(1234), toString(123456), <<"1", "2", "3", "4", "a">>,
      <<" ", "1", "2", "3", "4">> }

(***************************************************************************)
(* Stored rows.                                                            *)
(***************************************************************************)
NoSession ==
    [exists |-> FALSE, theme |-> "", startTime |-> 0, endTime |-> 0,
     isActive |-> FALSE, secretAnswer |-> <<>>, answerSet |-> <<>>]

NoMember ==
    [exists |-> FALSE, id |-> 0, name |-> "", email |-> "", pin |-> <<>>, pinHash |-> <<>>,
     isActive |-> FALSE]

\* The e-mail addresses of the seeded members.
SeedEmails == <<"john@example.com", "jane@example.com">>

\* prisma.session.findUnique({ where: { id } })
FindSession(sid) == IF sid \in SessionIds THEN sessions[sid] ELSE NoSession

\* prisma.member.findUnique({ where: { pin } })
FindMemberByPin(pin) ==
    IF \E m \in MemberIds : members[m].exists /\ members[m].pin = pin
    THEN members[CHOOSE m \in MemberIds : members[m].exists /\ members[m].pin = pin]
    ELSE NoMember

\* prisma.attendance.findUnique({ where: { sessionId_memberId } })
AttendanceOf(sid, mid) == {a \in attendance : a.sessionId = sid /\ a.memberId = mid}

NextAttendanceId ==
    IF attendance = {} THEN 1
    ELSE 1 + (CHOOSE i \in {a.id : a \in attendance} : \A a \in attendance : a.id <= i)

(***************************************************************************)
(* Responses.  Read-only handlers answer with a Reply, submitAttendance    *)
(* with a SubmitReply; checkedInAt is NoTime when the body carries no      *)
(* attendance timestamp.                                                   *)
(***************************************************************************)
Reply(op, sid, code, error, ok, status, canCheckIn) ==
    [op |-> op, sid |-> sid, code |-> code, error |-> error, ok |-> ok,
     status |-> status, canCheckIn |-> canCheckIn]

NoReply == Reply("none", 0, 0, "", FALSE, "", FALSE)

SubmitReply(code, error, checkedInAt, name, theme) ==
    [code |-> code, error |-> error, checkedInAt |-> checkedInAt,
     name |-> name, theme |-> theme]

NoResult == SubmitReply(0, "", NoTime, "", "")

\* A submit request.  after is a history field: whether an attendance row
\* for the request's session and the member holding its PIN was already
\* stored when the request arrived.
NoRequest == [sessionId |-> 0, pin |-> <<>>, after |-> FALSE]

\* The state of an upload: the rows of the file parseExcelFile has still to
\* process, its totalRows, the count of its errors, its data still to be
\* imported, the count of successfulImports and the importErrors (with the
\* PIN of the row, a history field).
\* The store of pinLimiter for the one address the submit requests come
\* from: the hits of the current window and the time it ends; passed is a
\* history field, the requests of the window the limiter has let through.
NoHits == [totalHits |-> 0, resetTime |-> NoTime, passed |-> 0]

\* The updateData of an updateSession request: the fields of the body it
\* writes, each absent ({}) or given.
NoUpdateData == [isActive |-> {}, startTime |-> {}, endTime |-> {}, secretAnswer |-> {}]

NoParseResult ==
    [file |-> <<>>, totalRows |-> 0, errors |-> 0, data |-> <<>>, imported |-> 0,
     importErrors |-> <<>>]

\* validateSession with both ends of the window excluded.
validateSessionExclusive(sid, session, t) ==
    LET bufferStartTime == session.startTime - bufferMinutes * 60 * 1000
        withinBufferWindow == t > bufferStartTime /\ t < session.endTime
    IN  IF ~session.exists
        THEN Reply("validate", sid, 404, "Session not found", FALSE, "", FALSE)
        ELSE IF ~session.isActive
        THEN Reply("validate", sid, 400, "Session inactive", FALSE, "", FALSE)
        ELSE IF ~withinBufferWindow
        THEN Reply("validate", sid, 400, "Outside check-in window", FALSE,
                   IF t < bufferStartTime THEN "not_started" ELSE "expired", FALSE)
        ELSE Reply("validate", sid, 200, "", TRUE, "", FALSE)

\* validateSession that opens the window at startTime, without the buffer.
validateSessionNoBuffer(sid, session, t) ==
    LET withinWindow == t >= session.startTime /\ t <= session.endTime
    IN  IF ~session.exists
        THEN Reply("validate", sid, 404, "Session not found", FALSE, "", FALSE)
        ELSE IF ~session.isActive
        THEN Reply("validate", sid, 400, "Session inactive", FALSE, "", FALSE)
        ELSE IF ~withinWindow
        THEN Reply("validate", sid, 400, "Outside check-in window", FALSE,
                   IF t < session.startTime THEN "not_started" ELSE "expired", FALSE)
        ELSE Reply("validate", sid, 200, "", TRUE, "", FALSE)

(***************************************************************************)
(* validateSession: the body after the session lookup.                     *)
(***************************************************************************)
validateSession(sid, session, t) ==
    LET startTime == session.startTime
        endTime == session.endTime
        bufferStartTime == startTime - bufferMinutes * 60 * 1000
        withinBufferWindow == t >= bufferStartTime /\ t <= endTime
    IN  IF ~session.exists
        THEN Reply("validate", sid, 404, "Session not found", FALSE, "", FALSE)
        ELSE IF ~session.isActive
        THEN Reply("validate", sid, 400, "Session inactive", FALSE, "", FALSE)
        ELSE IF ~withinBufferWindow
        THEN Reply("validate", sid, 400, "Outside check-in window", FALSE,
                   IF t < bufferStartTime THEN "not_started" ELSE "expired", FALSE)
        ELSE Reply("validate", sid, 200, "", TRUE, "", FALSE)

\* verifySecretAnswer that compares the answer before it checks the window.
verifySecretAnswerAnswerFirst(sid, session, t, answer) ==
    LET bufferStartTime == session.startTime - bufferMinutes * 60 * 1000
        isCorrect == bcryptCompare(trim(toLowerCase(answer)), session.secretAnswer)
    IN  IF ~session.exists
        THEN Reply("verify", sid, 404, "Session not found", FALSE, "", FALSE)
        ELSE IF ~session.isActive
        THEN Reply("verify", sid, 400, "Session inactive", FALSE, "", FALSE)
        ELSE IF ~isCorrect
        THEN Reply("verify", sid, 400, "Incorrect answer", FALSE, "", FALSE)
        ELSE IF t < bufferStartTime \/ t > session.endTime
        THEN Reply("verify", sid, 400, "Outside check-in window", FALSE, "", FALSE)
        ELSE Reply("verify", sid, 200, "", TRUE, "", FALSE)

(***************************************************************************)
(* verifySecretAnswer: the body after the session lookup.                  *)
(***************************************************************************)
verifySecretAnswer(sid, session, t, answer) ==
    LET bufferStartTime == session.startTime - bufferMinutes * 60 * 1000
        endTime == session.endTime
        isCorrect == bcryptCompare(trim(toLowerCase(answer)), session.secretAnswer)
    IN  IF ~session.exists
        THEN Reply("verify", sid, 404, "Session not found", FALSE, "", FALSE)
        ELSE IF ~session.isActive
        THEN Reply("verify", sid, 400, "Session inactive", FALSE, "", FALSE)
        ELSE IF t < bufferStartTime \/ t > endTime
        THEN Reply("verify", sid, 400, "Outside check-in window", FALSE, "", FALSE)
        ELSE IF ~isCorrect
        THEN Reply("verify", sid, 400, "Incorrect answer", FALSE, "", FALSE)
        ELSE Reply("verify", sid, 200, "", TRUE, "", FALSE)

\* getSessionInfo whose canCheckIn leaves the active flag out.
getSessionInfoIgnoresActive(sid, session, t) ==
    LET status == IF ~session.isActive THEN "inactive"
                  ELSE IF t < session.startTime THEN "upcoming"
                  ELSE IF t > session.endTime THEN "completed"
                  ELSE "active"
        bufferStartTime == session.startTime - bufferMinutes * 60 * 1000
        canCheckIn == t >= bufferStartTime /\ t <= session.endTime
    IN  IF ~session.exists
        THEN Reply("info", sid, 404, "Session not found", FALSE, "", FALSE)
        ELSE Reply("info", sid, 200, "", TRUE, status, canCheckIn)

(***************************************************************************)
(* getSessionInfo: the body after the session lookup.                      *)
(***************************************************************************)
getSessionInfo(sid, session, t) ==
    LET startTime == session.startTime
        endTime == session.endTime
        status == IF ~session.isActive THEN "inactive"
                  ELSE IF t < startTime THEN "upcoming"
                  ELSE IF t > endTime THEN "completed"
                  ELSE "active"
        bufferStartTime == startTime - bufferMinutes * 60 * 1000
        canCheckIn == session.isActive /\ t >= bufferStartTime /\ t <= endTime
    IN  IF ~session.exists
        THEN Reply("info", sid, 404, "Session not found", FALSE, "", FALSE)
        ELSE Reply("info", sid, 200, "", TRUE, status, canCheckIn)

(***************************************************************************)
(* getSessionStatus: the status helper of the session controller.          *)
(***************************************************************************)
getSessionStatus(session, t) ==
    IF ~session.isActive THEN "inactive"
    ELSE IF t < session.startTime THEN "upcoming"
    ELSE IF t > session.endTime THEN "completed"
    ELSE "active"

\* getSession (admin): the body after the session lookup.
getSession(sid, session, t) ==
    IF ~session.exists
    THEN Reply("getSession", sid, 404, "Session not found", FALSE, "", FALSE)
    ELSE Reply("getSession", sid, 200, "", TRUE, getSessionStatus(session, t), FALSE)

\* submitSessionCheck that looks at the time window before the active flag.
submitSessionCheckWindowFirst(session, t) ==
    LET bufferStartTime == session.startTime - bufferMinutes * 60 * 1000
    IN  IF ~session.exists
        THEN SubmitReply(404, "Session not found", NoTime, "", "")
        ELSE IF t < bufferStartTime \/ t > session.endTime
        THEN SubmitReply(400, "Outside check-in window", NoTime, "", "")
        ELSE IF ~session.isActive
        THEN SubmitReply(400, "Session inactive", NoTime, "", "")
        ELSE NoResult

\* submitSessionCheck without the time window.
submitSessionCheckNoWindow(session, t) ==
    IF ~session.exists
    THEN SubmitReply(404, "Session not found", NoTime, "", "")
    ELSE IF ~session.isActive
    THEN SubmitReply(400, "Session inactive", NoTime, "", "")
    ELSE NoResult

(***************************************************************************)
(* submitAttendance: the session checks made when the session lookup       *)
(* returns.  The reply has code 0 when every check passes.                 *)
(***************************************************************************)
submitSessionCheck(session, t) ==
    LET bufferStartTime == session.startTime - bufferMinutes * 60 * 1000
        endTime == session.endTime
    IN  IF ~session.exists
        THEN SubmitReply(404, "Session not found", NoTime, "", "")
        ELSE IF ~session.isActive
        THEN SubmitReply(400, "Session inactive", NoTime, "", "")
        ELSE IF t < bufferStartTime \/ t > endTime
        THEN SubmitReply(400, "Outside check-in window", NoTime, "", "")
        ELSE NoResult

\* submitMemberCheck that does not look at the member's active flag.
submitMemberCheckNoActive(pin, member) ==
    IF ~member.exists
    THEN SubmitReply(400, "Invalid PIN", NoTime, "", "")
    ELSE IF ~verifyPin(pin, member.pinHash)
    THEN SubmitReply(400, "Invalid PIN", NoTime, "", "")
    ELSE NoResult

\* submitAttendance: the member checks made when the lookup by PIN returns.
submitMemberCheck(pin, member) ==
    IF ~member.exists
    THEN SubmitReply(400, "Invalid PIN", NoTime, "", "")
    ELSE IF ~member.isActive
    THEN SubmitReply(400, "Member inactive", NoTime, "", "")
    ELSE IF ~verifyPin(pin, member.pinHash)
    THEN SubmitReply(400, "Invalid PIN", NoTime, "", "")
    ELSE NoResult

(***************************************************************************)
(* Initial state: a database holding MaxSessions active sessions that run  *)
(* from StartT to EndT, MaxMembers active members with distinct PINs and   *)
(* no attendance; no request in flight.                                    *)
(***************************************************************************)
Init ==
    /\ now = FirstInstant
    /\ sessions = [s \in SessionIds |->
                     [exists |-> TRUE, theme |-> "Sunday", startTime |-> StartT,
                      endTime |-> EndT, isActive |-> TRUE,
                      secretAnswer |-> hashedAnswer(StoredAnswer), answerSet |-> StoredAnswer]]
    /\ members = [m \in MemberIds |->
                     [exists |-> TRUE, id |-> m, name |-> <<"member", m>>, email |-> SeedEmails[m],
                      pin |-> PinOf(m),
                      pinHash |-> hashPin(PinOf(m)), isActive |-> TRUE]]
    /\ attendance = {}
    /\ pc = [p \in AllProcs |-> "idle"]
    /\ req = [p \in AllProcs |-> NoRequest]
    /\ psess = [p \in AllProcs |-> NoSession]
    /\ pmem = [p \in AllProcs |-> NoMember]
    /\ result = [p \in AllProcs |-> NoResult]
    /\ resp = NoReply
    /\ okLog = {}
    /\ attempts = [p \in AllProcs |-> 0]
    /\ parseResult = NoParseResult
    /\ updateData = [p \in AllProcs |-> NoUpdateData]
    /\ pinLimiter = NoHits

\* The wall clock moves forward, to instant t.
Tick(t) ==
    /\ t > now
    /\ now' = t
    /\ UNCHANGED <<sessions, members, attendance, pc, req, psess, pmem, result, resp, okLog, attempts, parseResult, updateData, pinLimiter>>

(***************************************************************************)
(* The read-only check-in handlers.                                        *)
(***************************************************************************)
ValidateSession(sid) ==
    /\ resp' = validateSession(sid, FindSession(sid), now)
    /\ okLog' = IF resp'.ok THEN okLog \cup {<<"validate", sid>>} ELSE okLog
    /\ UNCHANGED <<now, sessions, members, attendance, pc, req, psess, pmem, result, attempts, parseResult, updateData, pinLimiter>>

\* The verify route: validate(schemas.checkinAnswer), then the controller
\* with the validated answer.
checkinVerify(sid, session, t, answer) ==
    IF ~JoiAnswerValid(answer)
    THEN Reply("verify", sid, 400, "Validation error", FALSE, "", FALSE)
    ELSE verifySecretAnswer(sid, session, t, JoiAnswerValue(answer))

\* VerifySecretAnswer of a server that keeps the progress of the protocol:
\* it answers only for a session that validateSession has accepted.
VerifySecretAnswerAfterValidate(sid, answer) ==
    /\ resp' = IF <<"validate", sid>> \in okLog
               THEN checkinVerify(sid, FindSession(sid), now, answer)
               ELSE Reply("verify", sid, 400, "Session not validated", FALSE, "", FALSE)
    /\ okLog' = IF resp'.ok THEN okLog \cup {<<"verify", sid>>} ELSE okLog
    /\ UNCHANGED <<now, sessions, members, attendance, pc, req, psess, pmem, result, attempts, parseResult, updateData, pinLimiter>>

VerifySecretAnswer(sid, answer) ==
    /\ resp' = checkinVerify(sid, FindSession(sid), now, answer)
    /\ okLog' = IF resp'.ok THEN okLog \cup {<<"verify", sid>>} ELSE okLog
    /\ UNCHANGED <<now, sessions, members, attendance, pc, req, psess, pmem, result, attempts, parseResult, updateData, pinLimiter>>

GetSessionInfo(sid) ==
    /\ resp' = getSessionInfo(sid, FindSession(sid), now)
    /\ UNCHANGED <<now, sessions, members, attendance, pc, req, psess, pmem, result, okLog, attempts, parseResult, updateData, pinLimiter>>

(***************************************************************************)
(* submitAttendance, one step per database round trip.                     *)
(***************************************************************************)
Finish(p, r) ==
    /\ result' = [result EXCEPT ![p] = r]
    /\ pc' = [pc EXCEPT ![p] = "done"]
    /\ psess' = [psess EXCEPT ![p] = NoSession]
    /\ pmem' = [pmem EXCEPT ![p] = NoMember]

(***************************************************************************)
(* pinLimiter, the rate limiter in front of the submit route.  A request   *)
(* at "new" has been sent and has not reached the limiter; the limiter     *)
(* leaves it at "idle", in front of the route's validation, or ends it.    *)
(***************************************************************************)
windowMs == 5 * 60 * 1000

max == 3

\* The hits one window of the limiter's store counts up to.
MaxHits == 5

\* The store's increment at time t: a window that has ended is replaced by
\* a new one that starts at t, and the request is counted.
increment(hits, t) ==
    IF hits.resetTime = NoTime \/ hits.resetTime <= t
    THEN [totalHits |-> 1, resetTime |-> t + windowMs, passed |-> 0]
    ELSE [hits EXCEPT !.totalHits = @ + 1]

\* A client sends one more submit request from the address.
NewRequest(p) ==
    /\ pc[p] = "done"
    /\ pc' = [pc EXCEPT ![p] = "new"]
    /\ req' = [req EXCEPT ![p] = NoRequest]
    /\ result' = [result EXCEPT ![p] = NoResult]
    /\ UNCHANGED <<now, sessions, members, attendance, psess, pmem, resp, okLog, attempts,
                   parseResult, updateData, pinLimiter>>

\* pinLimiter that compares the hits counted before the request with max.
PinLimiterBeforeIncrement(p) ==
    LET hits == increment(pinLimiter, now)
    IN  /\ pc[p] = "new"
        /\ hits.totalHits <= MaxHits
        /\ IF hits.totalHits - 1 > max
           THEN /\ pinLimiter' = hits
                /\ Finish(p, SubmitReply(429, "Too many PIN attempts", NoTime, "", ""))
           ELSE /\ pinLimiter' = [hits EXCEPT !.passed = @ + 1]
                /\ pc' = [pc EXCEPT ![p] = "idle"]
                /\ UNCHANGED <<psess, pmem, result>>
        /\ UNCHANGED <<now, sessions, members, attendance, req, resp, okLog, attempts,
                       parseResult, updateData>>

\* pinLimiter: the request is counted, and answered with the limiter's
\* message when the window holds more than max hits.
PinLimiter(p) ==
    LET hits == increment(pinLimiter, now)
    IN  /\ pc[p] = "new"
        /\ hits.totalHits <= MaxHits
        /\ IF hits.totalHits > max
           THEN /\ pinLimiter' = hits
                /\ Finish(p, SubmitReply(429, "Too many PIN attempts", NoTime, "", ""))
           ELSE /\ pinLimiter' = [hits EXCEPT !.passed = @ + 1]
                /\ pc' = [pc EXCEPT ![p] = "idle"]
                /\ UNCHANGED <<psess, pmem, result>>
        /\ UNCHANGED <<now, sessions, members, attendance, req, resp, okLog, attempts,
                       parseResult, updateData>>

\* SubmitFindSession of a route without the validate middleware.
SubmitFindSessionUnvalidated(p, sid, pin) ==
    /\ pc[p] = "idle"
    /\ req' = [req EXCEPT ![p] =
                  [sessionId |-> sid, pin |-> pin,
                   after |-> AttendanceOf(sid, FindMemberByPin(pin).id) # {}]]
    /\ psess' = [psess EXCEPT ![p] = FindSession(sid)]
    /\ pc' = [pc EXCEPT ![p] = "session"]
    /\ UNCHANGED <<now, sessions, members, attendance, pmem, result, resp, okLog, attempts, parseResult, updateData, pinLimiter>>

\* The request arrives: the router validates the session id and the PIN,
\* and the controller reads the session row.
SubmitFindSession(p, sid, pin) ==
    /\ pc[p] = "idle"
    /\ req' = [req EXCEPT ![p] =
                  [sessionId |-> sid, pin |-> pin,
                   after |-> AttendanceOf(sid, FindMemberByPin(pin).id) # {}]]
    /\ IF ~sessionIdParam(sid) \/ ~checkinSubmit(pin)
       THEN Finish(p, SubmitReply(400, "Validation error", NoTime, "", ""))
       ELSE /\ psess' = [psess EXCEPT ![p] = FindSession(sid)]
            /\ pc' = [pc EXCEPT ![p] = "session"]
            /\ UNCHANGED <<pmem, result>>
    /\ UNCHANGED <<now, sessions, members, attendance, resp, okLog, attempts, parseResult, updateData, pinLimiter>>

\* The session lookup has returned: existence, active flag and time window.
SubmitCheckSession(p) ==
    /\ pc[p] = "session"
    /\ LET r == submitSessionCheck(psess[p], now)
       IN  IF r.code # 0
           THEN Finish(p, r)
           ELSE /\ pc' = [pc EXCEPT ![p] = "member"]
                /\ UNCHANGED <<psess, pmem, result>>
    /\ UNCHANGED <<now, sessions, members, attendance, req, resp, okLog, attempts, parseResult, updateData, pinLimiter>>

\* The member row is read by PIN and checked.
SubmitFindMember(p) ==
    /\ pc[p] = "member"
    /\ LET member == FindMemberByPin(req[p].pin)
           r == submitMemberCheck(req[p].pin, member)
       IN  IF r.code # 0
           THEN Finish(p, r)
           ELSE /\ pmem' = [pmem EXCEPT ![p] = member]
                /\ pc' = [pc EXCEPT ![p] = "attendance"]
                /\ UNCHANGED <<psess, result>>
    /\ UNCHANGED <<now, sessions, members, attendance, req, resp, okLog, attempts, parseResult, updateData, pinLimiter>>

\* SubmitFindAttendance without the pre-check: every call goes on to insert.
SubmitFindAttendanceSkipped(p) ==
    /\ pc[p] = "attendance"
    /\ pc' = [pc EXCEPT ![p] = "create"]
    /\ UNCHANGED <<now, sessions, members, attendance, req, psess, pmem, result, resp, okLog, attempts, parseResult, updateData, pinLimiter>>

\* SubmitFindAttendance that stamps the record it finds with the time of the
\* repeated check-in before it answers.
SubmitFindAttendanceRestamp(p) ==
    /\ pc[p] = "attendance"
    /\ LET existing == AttendanceOf(req[p].sessionId, pmem[p].id)
       IN  IF existing # {}
           THEN /\ attendance' = (attendance \ existing) \cup
                                     {[a EXCEPT !.checkedInAt = now] : a \in existing}
                /\ Finish(p, SubmitReply(409, "Already checked in", now, "", ""))
           ELSE /\ pc' = [pc EXCEPT ![p] = "create"]
                /\ UNCHANGED <<attendance, psess, pmem, result>>
    /\ UNCHANGED <<now, sessions, members, req, resp, okLog, attempts, parseResult, updateData, pinLimiter>>

\* The pre-check: is there an attendance row for (session, member) already?
SubmitFindAttendance(p) ==
    /\ pc[p] = "attendance"
    /\ LET existing == AttendanceOf(req[p].sessionId, pmem[p].id)
       IN  IF existing # {}
           THEN Finish(p, SubmitReply(409, "Already checked in",
                                      (CHOOSE a \in existing : TRUE).checkedInAt, "", ""))
           ELSE /\ pc' = [pc EXCEPT ![p] = "create"]
                /\ UNCHANGED <<psess, pmem, result>>
    /\ UNCHANGED <<now, sessions, members, attendance, req, resp, okLog, attempts, parseResult, updateData, pinLimiter>>

\* A store that keeps only the day of a check-in: the first instant of the day.
DefaultCheckedInAtDayStart == FirstInstant

\* The checkedInAt of a new attendance record: the handler passes none, the
\* store fills in the instant of the insert.
DefaultCheckedInAt == now

\* InsertVerdict of a store without the uniqueness constraint.
InsertVerdictNoUnique(sid, mid) ==
    IF ~FindSession(sid).exists \/ ~members[mid].exists THEN "P2003" ELSE "ok"

\* InsertVerdict of a store that does not check the referenced rows.
InsertVerdictNoForeignKey(sid, mid) ==
    IF AttendanceOf(sid, mid) # {} THEN "P2002" ELSE "ok"

\* The storage layer's verdict on an insert of (sid, mid): "P2002" for a
\* breach of the uniqueness of (sessionId, memberId), "P2003" for a missing
\* referenced row, "ok" otherwise.
InsertVerdict(sid, mid) ==
    IF ~FindSession(sid).exists \/ ~members[mid].exists THEN "P2003"
    ELSE IF AttendanceOf(sid, mid) # {} THEN "P2002"
    ELSE "ok"

\* SubmitCreate whose catch block does not single out P2002.
SubmitCreateUncaught(p) ==
    /\ pc[p] = "create"
    /\ LET sid == req[p].sessionId
           mid == pmem[p].id
       IN  IF InsertVerdict(sid, mid) = "ok"
           THEN /\ attendance' = attendance \cup
                      {[id |-> NextAttendanceId, sessionId |-> sid, memberId |-> mid,
                        checkedInAt |-> DefaultCheckedInAt]}
                /\ Finish(p, SubmitReply(201, "", DefaultCheckedInAt,
                                         pmem[p].name, psess[p].theme))
           ELSE /\ Finish(p, SubmitReply(500, "Internal server error", NoTime, "", ""))
                /\ UNCHANGED attendance
    /\ UNCHANGED <<now, sessions, members, req, resp, okLog, attempts, parseResult, updateData, pinLimiter>>

\* prisma.attendance.create and the handler's reply or catch block.
SubmitCreate(p) ==
    /\ pc[p] = "create"
    /\ LET sid == req[p].sessionId
           mid == pmem[p].id
           verdict == InsertVerdict(sid, mid)
       IN  IF verdict = "ok"
           THEN /\ attendance' = attendance \cup
                      {[id |-> NextAttendanceId, sessionId |-> sid, memberId |-> mid,
                        checkedInAt |-> DefaultCheckedInAt]}
                /\ Finish(p, SubmitReply(201, "", DefaultCheckedInAt,
                                         pmem[p].name, psess[p].theme))
           ELSE IF verdict = "P2002"
           THEN /\ Finish(p, SubmitReply(409, "Already checked in", NoTime, "", ""))
                /\ UNCHANGED attendance
           ELSE /\ Finish(p, SubmitReply(500, "Internal server error", NoTime, "", ""))
                /\ UNCHANGED attendance
    /\ UNCHANGED <<now, sessions, members, req, resp, okLog, attempts, parseResult, updateData, pinLimiter>>

(***************************************************************************)
(* Admin operations on the rows the check-in flow reads.                   *)
(***************************************************************************)
\* An optional field of a request body: {} when absent, {v} when given.
Given(field) == field # {}

ValueOf(field) == CHOOSE v \in field : TRUE

\* updateSession with isActive, startTime, endTime and secretAnswer in the
\* body; a secretAnswer the sessionUpdate schema rejects ends the request in
\* the validate middleware.  answerSet is a history field: the secretAnswer
\* the stored hash was made from.
UpdateSession(sid, isActive, startTime, endTime, secretAnswer) ==
    LET existing == FindSession(sid)
        newStartTime == IF Given(startTime) THEN ValueOf(startTime) ELSE existing.startTime
        newEndTime == IF Given(endTime) THEN ValueOf(endTime) ELSE existing.endTime
        rejected == \/ Given(secretAnswer) /\ ~JoiAnswerValid(ValueOf(secretAnswer))
                    \/ (Given(startTime) \/ Given(endTime)) /\ newStartTime >= newEndTime
        updated == [existing EXCEPT
                      !.isActive = IF Given(isActive) THEN ValueOf(isActive) ELSE @,
                      !.startTime = IF Given(startTime) THEN newStartTime ELSE @,
                      !.endTime = IF Given(endTime) THEN newEndTime ELSE @,
                      !.secretAnswer = IF Given(secretAnswer)
                                       THEN hashedAnswer(ValueOf(secretAnswer)) ELSE @,
                      !.answerSet = IF Given(secretAnswer) THEN ValueOf(secretAnswer) ELSE @]
    IN  /\ sessions' = IF existing.exists /\ ~rejected
                       THEN [sessions EXCEPT ![sid] = updated]
                       ELSE sessions
        /\ UNCHANGED <<now, members, attendance, pc, req, psess, pmem, result, resp, okLog, attempts, parseResult, updateData, pinLimiter>>

\* deleteSession, first round trip: the session is read with the count of
\* its attendance records; the count decides between deactivating and
\* deleting the row.
DeleteSession(sid) ==
    LET existing == FindSession(sid)
        count == Cardinality({a \in attendance : a.sessionId = sid})
    IN  /\ pc[AdminProc] = "idle"
        /\ req' = [req EXCEPT ![AdminProc] = [NoRequest EXCEPT !.sessionId = sid]]
        /\ IF ~existing.exists
           THEN Finish(AdminProc, SubmitReply(404, "Session not found", NoTime, "", ""))
           ELSE /\ pc' = [pc EXCEPT ![AdminProc] =
                              IF count > 0 THEN "deactivate" ELSE "delete"]
                /\ UNCHANGED <<psess, pmem, result>>
        /\ UNCHANGED <<now, sessions, members, attendance, resp, okLog, attempts, parseResult, updateData, pinLimiter>>

\* The storage layer's verdict on the deletion of session sid: "P2025" when
\* the row is gone, "P2003" when attendance records refer to it, "ok"
\* otherwise.
SessionDeleteVerdict(sid) ==
    IF ~FindSession(sid).exists THEN "P2025"
    ELSE IF \E a \in attendance : a.sessionId = sid THEN "P2003"
    ELSE "ok"

\* DeleteSessionWrite on a store that deletes the attendance records of a
\* deleted session with it.
DeleteSessionWriteCascade ==
    LET sid == req[AdminProc].sessionId
    IN  /\ pc[AdminProc] \in {"deactivate", "delete"}
        /\ IF ~FindSession(sid).exists
           THEN /\ Finish(AdminProc, SubmitReply(500, "Internal server error", NoTime, "", ""))
                /\ UNCHANGED <<sessions, attendance>>
           ELSE IF pc[AdminProc] = "deactivate"
           THEN /\ sessions' = [sessions EXCEPT ![sid].isActive = FALSE]
                /\ Finish(AdminProc, SubmitReply(200, "", NoTime, "", ""))
                /\ UNCHANGED attendance
           ELSE /\ sessions' = [sessions EXCEPT ![sid] = NoSession]
                /\ attendance' = {a \in attendance : a.sessionId # sid}
                /\ Finish(AdminProc, SubmitReply(200, "", NoTime, "", ""))
        /\ UNCHANGED <<now, members, req, resp, okLog, attempts, parseResult, updateData, pinLimiter>>

\* deleteSession, second round trip: prisma.session.update (deactivate) or
\* prisma.session.delete, and the handler's reply or catch block.
DeleteSessionWrite ==
    LET sid == req[AdminProc].sessionId
    IN  /\ pc[AdminProc] \in {"deactivate", "delete"}
        /\ IF pc[AdminProc] = "deactivate" /\ FindSession(sid).exists
           THEN /\ sessions' = [sessions EXCEPT ![sid].isActive = FALSE]
                /\ Finish(AdminProc, SubmitReply(200, "", NoTime, "", ""))
           ELSE IF pc[AdminProc] = "delete" /\ SessionDeleteVerdict(sid) = "ok"
           THEN /\ sessions' = [sessions EXCEPT ![sid] = NoSession]
                /\ Finish(AdminProc, SubmitReply(200, "", NoTime, "", ""))
           ELSE /\ Finish(AdminProc, SubmitReply(500, "Internal server error", NoTime, "", ""))
                /\ UNCHANGED sessions
        /\ UNCHANGED <<now, members, attendance, req, resp, okLog, attempts, parseResult, updateData, pinLimiter>>

\* deleteMember that removes the row of a member without attendance, as
\* deleteSession does for sessions.
DeleteMemberHard(mid) ==
    /\ members' = IF ~members[mid].exists THEN members
                  ELSE IF \E a \in attendance : a.memberId = mid
                  THEN [members EXCEPT ![mid].isActive = FALSE]
                  ELSE [members EXCEPT ![mid] = NoMember]
    /\ UNCHANGED <<now, sessions, attendance, pc, req, psess, pmem, result, resp, okLog, attempts, parseResult, updateData, pinLimiter>>

\* deleteMember: deactivate the member.
DeleteMember(mid) ==
    /\ members' = IF members[mid].exists
                  THEN [members EXCEPT ![mid].isActive = FALSE]
                  ELSE members
    /\ UNCHANGED <<now, sessions, attendance, pc, req, psess, pmem, result, resp, okLog, attempts, parseResult, updateData, pinLimiter>>

\* updateMember with isActive in the body.
UpdateMember(mid, isActive) ==
    /\ members' = IF members[mid].exists /\ Given(isActive)
                  THEN [members EXCEPT ![mid].isActive = ValueOf(isActive)]
                  ELSE members
    /\ UNCHANGED <<now, sessions, attendance, pc, req, psess, pmem, result, resp, okLog, attempts, parseResult, updateData, pinLimiter>>

\* resendPin that issues a new PIN to the member before it sends it.
ResendPinReissue(mid) ==
    LET member == members[mid]
    IN  /\ pc[AdminProc] = "idle"
        /\ pmem' = [pmem EXCEPT ![AdminProc] = member]
        /\ IF ~member.exists \/ ~member.isActive
           THEN /\ result' = [result EXCEPT ![AdminProc] =
                                 SubmitReply(IF member.exists THEN 400 ELSE 404,
                                             IF member.exists THEN "Member inactive"
                                             ELSE "Member not found", NoTime, "", "")]
                /\ pc' = [pc EXCEPT ![AdminProc] = "done"]
                /\ UNCHANGED members
           ELSE /\ members' = [members EXCEPT ![mid].pin = UnknownPin,
                                              ![mid].pinHash = hashPin(UnknownPin)]
                /\ pc' = [pc EXCEPT ![AdminProc] = "emailLog"]
                /\ UNCHANGED result
        /\ UNCHANGED <<now, sessions, attendance, req, psess, resp, okLog, attempts,
                       parseResult, updateData, pinLimiter>>

\* resendPin, first round trip: the member is read and checked.  pmem holds
\* the row read and is kept when the request ends.
ResendPin(mid) ==
    LET member == members[mid]
    IN  /\ pc[AdminProc] = "idle"
        /\ pmem' = [pmem EXCEPT ![AdminProc] = member]
        /\ IF ~member.exists \/ ~member.isActive
           THEN /\ result' = [result EXCEPT ![AdminProc] =
                                 SubmitReply(IF member.exists THEN 400 ELSE 404,
                                             IF member.exists THEN "Member inactive"
                                             ELSE "Member not found", NoTime, "", "")]
                /\ pc' = [pc EXCEPT ![AdminProc] = "done"]
           ELSE /\ pc' = [pc EXCEPT ![AdminProc] = "emailLog"]
                /\ UNCHANGED result
        /\ UNCHANGED <<now, sessions, members, attendance, req, psess, resp, okLog, attempts,
                       parseResult, updateData, pinLimiter>>

\* resendPin, second round trip: prisma.emailLog.create, a row of a table
\* the model does not hold, and the reply.
ResendPinLog ==
    /\ pc[AdminProc] = "emailLog"
    /\ result' = [result EXCEPT ![AdminProc] = SubmitReply(200, "", NoTime, "", "")]
    /\ pc' = [pc EXCEPT ![AdminProc] = "done"]
    /\ UNCHANGED <<now, sessions, members, attendance, req, psess, pmem, resp, okLog, attempts,
                   parseResult, updateData, pinLimiter>>

\* getSession (admin): the session with its status.
GetSession(sid) ==
    /\ resp' = getSession(sid, FindSession(sid), now)
    /\ UNCHANGED <<now, sessions, members, attendance, pc, req, psess, pmem, result, okLog, attempts, parseResult, updateData, pinLimiter>>

(***************************************************************************)
(* createSession and updateSession as requests of their own, one step per  *)
(* database round trip.  psess[p] holds the row the request has read or    *)
(* created, updateData[p] the fields it is about to write.                 *)
(***************************************************************************)
\* The startTime and endTime values of the bodies.
SessionTimes == { StartT, StartT + 60000, EndT }

\* schemas.sessionCreate: startTime not before now, endTime not before
\* startTime.
sessionCreate(startTime, endTime, t) == startTime >= t /\ endTime >= startTime

\* The end of a session request.
FinishSession(p, code, error) ==
    /\ result' = [result EXCEPT ![p] = SubmitReply(code, error, NoTime, "", "")]
    /\ pc' = [pc EXCEPT ![p] = "done"]

\* createSession: validation, the checks of the time range, and
\* prisma.session.create.  The session table gives the new row the id sid.
CreateSession(p, sid, startTime, endTime, secretAnswer) ==
    LET session == [exists |-> TRUE, theme |-> "Sunday", startTime |-> startTime,
                    endTime |-> endTime, isActive |-> TRUE,
                    secretAnswer |-> hashedAnswer(secretAnswer),
                    answerSet |-> secretAnswer]
    IN  /\ pc[p] = "idle"
        /\ ~sessions[sid].exists
        /\ req' = [req EXCEPT ![p] = [NoRequest EXCEPT !.sessionId = sid]]
        /\ IF ~sessionCreate(startTime, endTime, now) \/ ~JoiAnswerValid(secretAnswer)
           THEN /\ FinishSession(p, 400, "Validation error")
                /\ UNCHANGED <<sessions, psess>>
           ELSE IF startTime >= endTime \/ endTime <= now
           THEN /\ FinishSession(p, 400, "Invalid time range")
                /\ UNCHANGED <<sessions, psess>>
           ELSE /\ sessions' = [sessions EXCEPT ![sid] = session]
                /\ psess' = [psess EXCEPT ![p] = session]
                /\ pc' = [pc EXCEPT ![p] = "qr"]
                /\ UNCHANGED result
        /\ UNCHANGED <<now, members, attendance, pmem, resp, okLog, attempts, parseResult,
                       updateData, pinLimiter>>

\* createSession: prisma.session.update with the QR code data, which no
\* modelled field holds, and the reply or the catch block.
CreateSessionQr(p) ==
    /\ pc[p] = "qr"
    /\ IF FindSession(req[p].sessionId).exists
       THEN FinishSession(p, 201, "")
       ELSE FinishSession(p, 500, "Internal server error")
    /\ UNCHANGED <<now, sessions, members, attendance, req, psess, pmem, resp, okLog, attempts,
                   parseResult, updateData, pinLimiter>>

\* updateSession, first round trip: the session is read, and the new time
\* range is checked against the row as read.
UpdateSessionFind(p, sid, isActive, startTime, endTime) ==
    LET existingSession == FindSession(sid)
        newStartTime == IF Given(startTime) THEN ValueOf(startTime)
                        ELSE existingSession.startTime
        newEndTime == IF Given(endTime) THEN ValueOf(endTime) ELSE existingSession.endTime
    IN  /\ pc[p] = "idle"
        /\ req' = [req EXCEPT ![p] = [NoRequest EXCEPT !.sessionId = sid]]
        /\ psess' = [psess EXCEPT ![p] = existingSession]
        /\ IF ~existingSession.exists
           THEN /\ FinishSession(p, 404, "Session not found")
                /\ UNCHANGED updateData
           ELSE IF (Given(startTime) \/ Given(endTime)) /\ newStartTime >= newEndTime
           THEN /\ FinishSession(p, 400, "Invalid time range")
                /\ UNCHANGED updateData
           ELSE /\ updateData' = [updateData EXCEPT ![p] =
                                     [NoUpdateData EXCEPT !.isActive = isActive,
                                                          !.startTime = startTime,
                                                          !.endTime = endTime]]
                /\ pc' = [pc EXCEPT ![p] = "update"]
                /\ UNCHANGED result
        /\ UNCHANGED <<now, sessions, members, attendance, pmem, resp, okLog, attempts,
                       parseResult, pinLimiter>>

\* The row prisma.session.update leaves for updateData data.
updatedSession(session, data) ==
    [session EXCEPT
       !.isActive = IF Given(data.isActive) THEN ValueOf(data.isActive) ELSE @,
       !.startTime = IF Given(data.startTime) THEN ValueOf(data.startTime) ELSE @,
       !.endTime = IF Given(data.endTime) THEN ValueOf(data.endTime) ELSE @]

\* updateSession whose update writes the whole time range it has checked.
UpdateSessionWriteRange(p) ==
    LET sid == req[p].sessionId
        range == [updateData[p] EXCEPT
                    !.startTime = IF Given(@) \/ Given(updateData[p].endTime)
                                  THEN {IF Given(@) THEN ValueOf(@) ELSE psess[p].startTime}
                                  ELSE {},
                    !.endTime = IF Given(@) \/ Given(updateData[p].startTime)
                                THEN {IF Given(@) THEN ValueOf(@) ELSE psess[p].endTime}
                                ELSE {}]
    IN  /\ pc[p] = "update"
        /\ IF FindSession(sid).exists
           THEN /\ sessions' = [sessions EXCEPT ![sid] = updatedSession(@, range)]
                /\ FinishSession(p, 200, "")
           ELSE /\ FinishSession(p, 500, "Internal server error")
                /\ UNCHANGED sessions
        /\ UNCHANGED <<now, members, attendance, req, psess, pmem, resp, okLog, attempts,
                       parseResult, updateData, pinLimiter>>

\* updateSession, second round trip: prisma.session.update with updateData,
\* and the reply or the catch block.
UpdateSessionWrite(p) ==
    LET sid == req[p].sessionId
    IN  /\ pc[p] = "update"
        /\ IF FindSession(sid).exists
           THEN /\ sessions' = [sessions EXCEPT ![sid] = updatedSession(@, updateData[p])]
                /\ FinishSession(p, 200, "")
           ELSE /\ FinishSession(p, 500, "Internal server error")
                /\ UNCHANGED sessions
        /\ UNCHANGED <<now, members, attendance, req, psess, pmem, resp, okLog, attempts,
                       parseResult, updateData, pinLimiter>>

(***************************************************************************)
(* Member creation: createMember and uploadMembers, one step per database  *)
(* round trip.  pmem[p] holds the row a createMember request is about to   *)
(* store and is kept when the request ends.                                *)
(***************************************************************************)
\* The loop of generateUniquePin is cut after MaxAttempts lookups (the
\* program's maxAttempts is 100).
MaxAttempts == 2

\* The e-mail addresses of the createMember requests, and those of the rows
\* of the files.
RequestEmails == {"a@example.com", "b@example.com"}

Emails == RequestEmails \cup {"c@example.com"}

\* The values Math.floor(10000 + Math.random() * 90000).toString() takes.
GeneratedPins == MemberPins

\* The uploaded files: the e-mail addresses of their rows.
MaxRows == 2

Files == UNION { [1..n -> Emails] : n \in 0..MaxRows }

\* prisma.member.findUnique({ where: { email } })
FindMemberByEmail(email) ==
    IF \E m \in MemberIds : members[m].exists /\ members[m].email = email
    THEN members[CHOOSE m \in MemberIds : members[m].exists /\ members[m].email = email]
    ELSE NoMember

\* NewMember whose pinHash is made from another PIN than the one stored.
NewMemberOtherHash(email, pin) ==
    [exists |-> TRUE, id |-> 0, name |-> <<"member", email>>, email |-> email, pin |-> pin,
     pinHash |-> IF pin = <<>> THEN <<>> ELSE hashPin(UnknownPin), isActive |-> TRUE]

\* The data of prisma.member.create for a request or a row.
NewMember(email, pin) ==
    [exists |-> TRUE, id |-> 0, name |-> <<"member", email>>, email |-> email, pin |-> pin,
     pinHash |-> IF pin = <<>> THEN <<>> ELSE hashPin(pin), isActive |-> TRUE]

maxAttempts == 100

\* Math.floor(10000 + Math.random() * 90000).toString(), for the random
\* number whose product with 90000 has the integer part d.
randomPin(d) == toString(10000 + d)

\* The integer parts drawn: the least, the greatest, and those of the PINs
\* of the seeded members.
RandomDraws == {0, 2345, 2346, 89999}

\* generateUniquePinTurn with a loop that runs while attempts <= limit.
generateUniquePinTurnInclusive(pin, n, limit) ==
    IF ~FindMemberByPin(pin).exists THEN "return"
    ELSE IF n + 1 <= limit THEN "retry"
    ELSE "throw"

\* One turn of the loop of generateUniquePin with the random PIN pin, after
\* n failed turns, for a loop of at most limit turns: the PIN is returned,
\* the loop goes on, or the function throws.
generateUniquePinTurn(pin, n, limit) ==
    IF ~FindMemberByPin(pin).exists THEN "return"
    ELSE IF n + 1 < limit THEN "retry"
    ELSE "throw"

\* The turn of the loop as cut for the requests whose loop is not followed
\* to its end.
generateUniquePin(pin, n) == generateUniquePinTurn(pin, n, MaxAttempts)

\* The member table with unique constraints on e-mail only.
MemberInsertVerdictEmailOnly(data) ==
    IF \E m \in MemberIds : members[m].exists /\ members[m].email = data.email THEN "email"
    ELSE "ok"

\* The store's verdict on prisma.member.create: the unique constraint the
\* new row violates ("pin", "email": error P2002), or "ok".
MemberInsertVerdict(data) ==
    IF \E m \in MemberIds : members[m].exists /\ members[m].pin = data.pin THEN "pin"
    ELSE IF \E m \in MemberIds : members[m].exists /\ members[m].email = data.email THEN "email"
    ELSE "ok"

\* The ids the member table has not given out.
FreeMemberIds == {m \in MemberIds : ~members[m].exists}

NextMemberId == CHOOSE m \in FreeMemberIds : \A k \in FreeMemberIds : m <= k

StoreMember(data) == [members EXCEPT ![NextMemberId] = [data EXCEPT !.id = NextMemberId]]

\* The end of a createMember request.
FinishMember(p, code, error) ==
    /\ result' = [result EXCEPT ![p] = SubmitReply(code, error, NoTime, "", "")]
    /\ pc' = [pc EXCEPT ![p] = "done"]

\* createMember: the e-mail lookup.
CreateMemberFindEmail(p, email) ==
    /\ pc[p] = "idle"
    /\ pmem' = [pmem EXCEPT ![p] = NewMember(email, <<>>)]
    /\ IF FindMemberByEmail(email).exists
       THEN FinishMember(p, 409, "Email already exists")
       ELSE /\ pc' = [pc EXCEPT ![p] = "pin"]
            /\ UNCHANGED result
    /\ UNCHANGED <<now, sessions, members, attendance, req, psess, resp, okLog, attempts,
                   parseResult, updateData, pinLimiter>>

\* createMember: one lookup of generateUniquePin, with the random PIN pin.
CreateMemberPin(p, pin) ==
    /\ pc[p] = "pin"
    /\ LET turn == generateUniquePin(pin, attempts[p])
       IN  /\ attempts' = [attempts EXCEPT ![p] = IF turn = "retry" THEN @ + 1 ELSE 0]
           /\ pmem' = IF turn = "return"
                      THEN [pmem EXCEPT ![p] = NewMember(pmem[p].email, pin)]
                      ELSE pmem
           /\ IF turn = "throw"
              THEN FinishMember(p, 500, "Internal server error")
              ELSE /\ pc' = [pc EXCEPT ![p] = IF turn = "return" THEN "insert" ELSE "pin"]
                   /\ UNCHANGED result
    /\ UNCHANGED <<now, sessions, members, attendance, req, psess, resp, okLog, parseResult, updateData, pinLimiter>>

\* createMember: one lookup of generateUniquePin, with the loop followed
\* through all its maxAttempts turns.  attempts[p] is kept when the loop has
\* ended.
GenerateMemberPin(p, d) ==
    /\ pc[p] = "pin"
    /\ LET pin == randomPin(d)
           turn == generateUniquePinTurn(pin, attempts[p], maxAttempts)
       IN  /\ attempts' = [attempts EXCEPT ![p] = IF turn = "return" THEN @ ELSE @ + 1]
           /\ pmem' = IF turn = "return"
                      THEN [pmem EXCEPT ![p] = NewMember(pmem[p].email, pin)]
                      ELSE pmem
           /\ IF turn = "throw"
              THEN FinishMember(p, 500, "Internal server error")
              ELSE /\ pc' = [pc EXCEPT ![p] = IF turn = "return" THEN "insert" ELSE "pin"]
                   /\ UNCHANGED result
    /\ UNCHANGED <<now, sessions, members, attendance, req, psess, resp, okLog, parseResult,
                   updateData, pinLimiter>>

\* createMember: the insert.
CreateMemberInsert(p) ==
    /\ pc[p] = "insert"
    /\ IF MemberInsertVerdict(pmem[p]) = "ok"
       THEN /\ FreeMemberIds # {}
            /\ members' = StoreMember(pmem[p])
            /\ FinishMember(p, 201, "")
       ELSE /\ members' = members
            /\ FinishMember(p, 500, "Internal server error")
    /\ UNCHANGED <<now, sessions, attendance, req, psess, pmem, resp, okLog, attempts,
                   parseResult, updateData, pinLimiter>>

\* uploadMembers: the status of the response once every row is handled.
uploadStatus(r) ==
    IF r.imported = 0 THEN 400
    ELSE IF r.errors + Len(r.importErrors) > 0 THEN 207
    ELSE 201

\* uploadMembers after parseExcelFile has returned r: the request ends when
\* every row failed, or when no row is left to import.
UploadParsed(r) ==
    /\ parseResult' = r
    /\ IF r.errors = r.totalRows
       THEN FinishMember(AdminProc, 400, "All rows failed validation")
       ELSE IF r.data = <<>>
       THEN FinishMember(AdminProc, uploadStatus(r), "")
       ELSE /\ pc' = [pc EXCEPT ![AdminProc] = "rowEmail"]
            /\ UNCHANGED result

\* uploadMembers: the request arrives with a file and parseExcelFile starts
\* on its rows.
UploadMembers(file) ==
    /\ pc[AdminProc] = "idle"
    /\ LET r == [NoParseResult EXCEPT !.file = file, !.totalRows = Len(file)]
       IN  IF file = <<>>
           THEN UploadParsed(r)
           ELSE /\ parseResult' = r
                /\ pc' = [pc EXCEPT ![AdminProc] = "parse"]
                /\ UNCHANGED result
    /\ UNCHANGED <<now, sessions, members, attendance, req, psess, pmem, resp, okLog, attempts, updateData, pinLimiter>>

\* parseExcelFile: one lookup of generateUniquePin for the row processRow is
\* working on, with the random PIN pin.
UploadParseRow(pin) ==
    /\ pc[AdminProc] = "parse"
    /\ LET turn == generateUniquePin(pin, attempts[AdminProc])
           row == NewMember(Head(parseResult.file), pin)
           r == IF turn = "return"
                THEN [parseResult EXCEPT !.file = Tail(@), !.data = Append(@, row)]
                ELSE IF turn = "throw"
                THEN [parseResult EXCEPT !.file = Tail(@), !.errors = @ + 1]
                ELSE parseResult
       IN  /\ attempts' = [attempts EXCEPT ![AdminProc] = IF turn = "retry" THEN @ + 1 ELSE 0]
           /\ IF r.file = <<>>
              THEN UploadParsed(r)
              ELSE /\ parseResult' = r
                   /\ UNCHANGED <<pc, result>>
    /\ UNCHANGED <<now, sessions, members, attendance, req, psess, pmem, resp, okLog, updateData, pinLimiter>>

\* uploadMembers once the row at the head of data is handled, leaving r.
UploadNextRow(r) ==
    /\ parseResult' = r
    /\ IF r.data = <<>>
       THEN FinishMember(AdminProc, uploadStatus(r), "")
       ELSE /\ pc' = [pc EXCEPT ![AdminProc] = "rowEmail"]
            /\ UNCHANGED result

\* uploadMembers: the e-mail lookup for the row at the head of data.
UploadFindEmail ==
    /\ pc[AdminProc] = "rowEmail"
    /\ LET memberData == Head(parseResult.data)
       IN  IF FindMemberByEmail(memberData.email).exists
           THEN UploadNextRow([parseResult EXCEPT
                                 !.data = Tail(@),
                                 !.importErrors = Append(@, [email |-> memberData.email,
                                                             pin |-> memberData.pin,
                                                             error |-> "exists"])])
           ELSE /\ pc' = [pc EXCEPT ![AdminProc] = "rowInsert"]
                /\ UNCHANGED <<parseResult, result>>
    /\ UNCHANGED <<now, sessions, members, attendance, req, psess, pmem, resp, okLog, attempts, updateData, pinLimiter>>

\* uploadMembers: the insert of the row at the head of data; an error of the
\* store is caught for the row and recorded.
UploadInsert ==
    /\ pc[AdminProc] = "rowInsert"
    /\ LET memberData == Head(parseResult.data)
           verdict == MemberInsertVerdict(memberData)
       IN  IF verdict = "ok"
           THEN /\ FreeMemberIds # {}
                /\ members' = StoreMember(memberData)
                /\ UploadNextRow([parseResult EXCEPT !.data = Tail(@), !.imported = @ + 1])
           ELSE /\ members' = members
                /\ UploadNextRow([parseResult EXCEPT
                                    !.data = Tail(@),
                                    !.importErrors = Append(@, [email |-> memberData.email,
                                                                pin |-> memberData.pin,
                                                                error |-> verdict])])
    /\ UNCHANGED <<now, sessions, attendance, req, psess, pmem, resp, okLog, attempts, updateData, pinLimiter>>

\* The check-in flow under concurrency: submitAttendance calls interleaved
\* with one another, with the clock and with the admin operations.
Next ==
    \/ \E t \in CoarseInstants : Tick(t)
    \/ \E p \in Procs, sid \in SessionIds, pin \in MemberPins : SubmitFindSession(p, sid, pin)
    \/ \E p \in Procs : SubmitCheckSession(p)
    \/ \E p \in Procs : SubmitFindMember(p)
    \/ \E p \in Procs : SubmitFindAttendance(p)
    \/ \E p \in Procs : SubmitCreate(p)
    \/ \E sid \in SessionIds, isActive \in {{}, {FALSE}},
          startTime \in {{}, {EndT}}, endTime \in {{}, {EndT}} :
          UpdateSession(sid, isActive, startTime, endTime, {})
    \/ \E sid \in SessionIds : DeleteSession(sid)
    \/ DeleteSessionWrite
    \/ \E mid \in MemberIds : DeleteMember(mid)

Spec == Init /\ [][Next]_vars

(***************************************************************************)
(* The three-step protocol of one client: the read-only handlers and one   *)
(* submitAttendance call, against sessions whose schedule and active flag  *)
(* are drawn from bounded sets, while the clock runs.                      *)
(***************************************************************************)
Schedules == { <<StartT, EndT>>, <<StartT - 4 * 60000, StartT>> }

InitWindow ==
    /\ now = FirstInstant
    /\ \E sched \in Schedules, active \in BOOLEAN :
          sessions = [s \in SessionIds |->
                        [exists |-> TRUE, theme |-> "Sunday", startTime |-> sched[1],
                         endTime |-> sched[2], isActive |-> active,
                         secretAnswer |-> hashedAnswer(StoredAnswer), answerSet |-> StoredAnswer]]
    /\ members = [m \in MemberIds |->
                     [exists |-> TRUE, id |-> m, name |-> <<"member", m>>, email |-> SeedEmails[m],
                      pin |-> PinOf(m),
                      pinHash |-> hashPin(PinOf(m)), isActive |-> TRUE]]
    /\ attendance = {}
    /\ pc = [p \in AllProcs |-> "idle"]
    /\ req = [p \in AllProcs |-> NoRequest]
    /\ psess = [p \in AllProcs |-> NoSession]
    /\ pmem = [p \in AllProcs |-> NoMember]
    /\ result = [p \in AllProcs |-> NoResult]
    /\ resp = NoReply
    /\ okLog = {}
    /\ attempts = [p \in AllProcs |-> 0]
    /\ parseResult = NoParseResult
    /\ updateData = [p \in AllProcs |-> NoUpdateData]
    /\ pinLimiter = NoHits

NextWindow ==
    \/ \E t \in Instants : Tick(t)
    \/ \E sid \in ReqSessionIds : ValidateSession(sid)
    \/ \E sid \in ReqSessionIds, answer \in AnswerInputs : VerifySecretAnswer(sid, answer)
    \/ \E sid \in ReqSessionIds : GetSessionInfo(sid)
    \/ \E sid \in ReqSessionIds : GetSession(sid)
    \/ \E sid \in ReqSessionIds, pin \in ReqPins : SubmitFindSession(1, sid, pin)
    \/ SubmitCheckSession(1)
    \/ SubmitFindMember(1)
    \/ SubmitFindAttendance(1)
    \/ SubmitCreate(1)
    \/ \E sid \in SessionIds, isActive \in {{FALSE}, {TRUE}} : UpdateSession(sid, isActive, {}, {}, {})

SpecWindow == InitWindow /\ [][NextWindow]_vars

(***************************************************************************)
(* submitAttendance on every kind of input: the first client sends any     *)
(* session id and any PIN, well-formed or not, the others the PINs of      *)
(* members, while sessions are deleted and members deactivated and         *)
(* reactivated.                                                            *)
(***************************************************************************)
SubmitSessionIds == ReqSessionIds \cup {0}

SubmitPins == ReqPins \cup MalformedPins

NextSubmit ==
    \/ \E t \in CoarseInstants : Tick(t)
    \/ \E sid \in SubmitSessionIds, pin \in SubmitPins : SubmitFindSession(1, sid, pin)
    \/ \E p \in Procs \ {1}, sid \in SessionIds, pin \in MemberPins :
          SubmitFindSession(p, sid, pin)
    \/ \E p \in Procs : SubmitCheckSession(p)
    \/ \E p \in Procs : SubmitFindMember(p)
    \/ \E p \in Procs : SubmitFindAttendance(p)
    \/ \E p \in Procs : SubmitCreate(p)
    \/ \E sid \in SessionIds : DeleteSession(sid)
    \/ DeleteSessionWrite
    \/ \E mid \in MemberIds : DeleteMember(mid)
    \/ \E mid \in MemberIds, isActive \in {{}, {TRUE}} : UpdateMember(mid, isActive)

SpecSubmit == Init /\ [][NextSubmit]_vars

(***************************************************************************)
(* The check-in flow under concurrency with every admin operation on       *)
(* sessions and members.                                                   *)
(***************************************************************************)
NextAdmin ==
    \/ Next
    \/ \E mid \in MemberIds, isActive \in {{}, {TRUE}} : UpdateMember(mid, isActive)

SpecAdmin == Init /\ [][NextAdmin]_vars

(***************************************************************************)
(* The secret answer: a session created from any of the answers, answers   *)
(* replaced by updateSession, and the answer check called with every       *)
(* input, while the clock runs.                                            *)
(***************************************************************************)
InitAnswer ==
    /\ now = FirstInstant
    /\ \E secretAnswer \in SetAnswers :
          sessions = [s \in SessionIds |->
                        [exists |-> TRUE, theme |-> "Sunday", startTime |-> StartT,
                         endTime |-> EndT, isActive |-> TRUE,
                         secretAnswer |-> hashedAnswer(secretAnswer),
                         answerSet |-> secretAnswer]]
    /\ members = [m \in MemberIds |->
                     [exists |-> TRUE, id |-> m, name |-> <<"member", m>>, email |-> SeedEmails[m],
                      pin |-> PinOf(m),
                      pinHash |-> hashPin(PinOf(m)), isActive |-> TRUE]]
    /\ attendance = {}
    /\ pc = [p \in AllProcs |-> "idle"]
    /\ req = [p \in AllProcs |-> NoRequest]
    /\ psess = [p \in AllProcs |-> NoSession]
    /\ pmem = [p \in AllProcs |-> NoMember]
    /\ result = [p \in AllProcs |-> NoResult]
    /\ resp = NoReply
    /\ okLog = {}
    /\ attempts = [p \in AllProcs |-> 0]
    /\ parseResult = NoParseResult
    /\ updateData = [p \in AllProcs |-> NoUpdateData]
    /\ pinLimiter = NoHits

NextAnswer ==
    \/ \E t \in CoarseInstants : Tick(t)
    \/ \E sid \in SessionIds, secretAnswer \in SetAnswers \cup {<<" ">>} :
          UpdateSession(sid, {}, {}, {}, {secretAnswer})
    \/ \E sid \in SessionIds : ValidateSession(sid)
    \/ \E sid \in SessionIds, answer \in VerifyAnswers : VerifySecretAnswer(sid, answer)

SpecAnswer == InitAnswer /\ [][NextAnswer]_vars

(***************************************************************************)
(* The member directory under creation: createMember requests of Procs and *)
(* one upload, interleaved with one another, from an empty directory.      *)
(***************************************************************************)
InitMembers ==
    /\ now = FirstInstant
    /\ sessions = [s \in SessionIds |->
                     [exists |-> TRUE, theme |-> "Sunday", startTime |-> StartT,
                      endTime |-> EndT, isActive |-> TRUE,
                      secretAnswer |-> hashedAnswer(StoredAnswer), answerSet |-> StoredAnswer]]
    /\ members = [m \in MemberIds |-> NoMember]
    /\ attendance = {}
    /\ pc = [p \in AllProcs |-> "idle"]
    /\ req = [p \in AllProcs |-> NoRequest]
    /\ psess = [p \in AllProcs |-> NoSession]
    /\ pmem = [p \in AllProcs |-> NoMember]
    /\ result = [p \in AllProcs |-> NoResult]
    /\ resp = NoReply
    /\ okLog = {}
    /\ attempts = [p \in AllProcs |-> 0]
    /\ parseResult = NoParseResult
    /\ updateData = [p \in AllProcs |-> NoUpdateData]
    /\ pinLimiter = NoHits

NextMembers ==
    \/ \E p \in Procs, email \in RequestEmails : CreateMemberFindEmail(p, email)
    \/ \E p \in Procs, pin \in GeneratedPins : CreateMemberPin(p, pin)
    \/ \E p \in Procs : CreateMemberInsert(p)
    \/ \E file \in Files : UploadMembers(file)
    \/ \E pin \in GeneratedPins : UploadParseRow(pin)
    \/ UploadFindEmail
    \/ UploadInsert

SpecMembers == InitMembers /\ [][NextMembers]_vars

(***************************************************************************)
(* The session directory under its admin requests: createSession and       *)
(* updateSession requests of Procs, interleaved with one another and with  *)
(* the clock, from an empty directory.                                     *)
(***************************************************************************)
InitSessions ==
    /\ now = FirstInstant
    /\ sessions = [s \in SessionIds |-> NoSession]
    /\ members = [m \in MemberIds |->
                     [exists |-> TRUE, id |-> m, name |-> <<"member", m>>, email |-> SeedEmails[m],
                      pin |-> PinOf(m), pinHash |-> hashPin(PinOf(m)), isActive |-> TRUE]]
    /\ attendance = {}
    /\ pc = [p \in AllProcs |-> "idle"]
    /\ req = [p \in AllProcs |-> NoRequest]
    /\ psess = [p \in AllProcs |-> NoSession]
    /\ pmem = [p \in AllProcs |-> NoMember]
    /\ result = [p \in AllProcs |-> NoResult]
    /\ resp = NoReply
    /\ okLog = {}
    /\ attempts = [p \in AllProcs |-> 0]
    /\ parseResult = NoParseResult
    /\ updateData = [p \in AllProcs |-> NoUpdateData]
    /\ pinLimiter = NoHits

NextSessions ==
    \/ \E t \in CoarseInstants : Tick(t)
    \/ \E p \in AllProcs, sid \in SessionIds, startTime, endTime \in SessionTimes :
          CreateSession(p, sid, startTime, endTime, StoredAnswer)
    \/ \E p \in AllProcs : CreateSessionQr(p)
    \/ \E p \in AllProcs, sid \in ReqSessionIds, isActive \in {{}, {FALSE}},
          startTime, endTime \in {{}} \cup {{t} : t \in SessionTimes} :
          UpdateSessionFind(p, sid, isActive, startTime, endTime)
    \/ \E p \in AllProcs : UpdateSessionWrite(p)

SpecSessions == InitSessions /\ [][NextSessions]_vars

(***************************************************************************)
(* The submit route behind its limiter: the submit requests of Procs all   *)
(* come from one address, and a client sends a new request when one has    *)
(* ended.                                                                  *)
(***************************************************************************)
InitLimiter ==
    /\ now = FirstInstant
    /\ sessions = [s \in SessionIds |->
                     [exists |-> TRUE, theme |-> "Sunday", startTime |-> StartT,
                      endTime |-> EndT, isActive |-> TRUE,
                      secretAnswer |-> hashedAnswer(StoredAnswer), answerSet |-> StoredAnswer]]
    /\ members = [m \in MemberIds |->
                     [exists |-> TRUE, id |-> m, name |-> <<"member", m>>, email |-> SeedEmails[m],
                      pin |-> PinOf(m), pinHash |-> hashPin(PinOf(m)), isActive |-> TRUE]]
    /\ attendance = {}
    /\ pc = [p \in AllProcs |-> IF p \in Procs THEN "new" ELSE "idle"]
    /\ req = [p \in AllProcs |-> NoRequest]
    /\ psess = [p \in AllProcs |-> NoSession]
    /\ pmem = [p \in AllProcs |-> NoMember]
    /\ result = [p \in AllProcs |-> NoResult]
    /\ resp = NoReply
    /\ okLog = {}
    /\ attempts = [p \in AllProcs |-> 0]
    /\ parseResult = NoParseResult
    /\ updateData = [p \in AllProcs |-> NoUpdateData]
    /\ pinLimiter = NoHits

\* The PINs tried from the address: a member's PIN and a PIN of no member.
LimiterPins == {PinOf(1), UnknownPin}

NextLimiter ==
    \/ \E t \in CoarseInstants : Tick(t)
    \/ \E p \in Procs : NewRequest(p)
    \/ \E p \in Procs : PinLimiter(p)
    \/ \E p \in Procs, sid \in SessionIds, pin \in LimiterPins : SubmitFindSession(p, sid, pin)
    \/ \E p \in Procs : SubmitCheckSession(p)
    \/ \E p \in Procs : SubmitFindMember(p)
    \/ \E p \in Procs : SubmitFindAttendance(p)
    \/ \E p \in Procs : SubmitCreate(p)

SpecLimiter == InitLimiter /\ [][NextLimiter]_vars

(***************************************************************************)
(* The member directory in use: createMember requests of process 1,        *)
(* check-ins of the other processes at session 1, one upload of a one-row  *)
(* file or one resendPin, updateMember and deleteMember, from a directory  *)
(* that holds the first seeded member.                                     *)
(***************************************************************************)
InitPin ==
    /\ now = FirstInstant
    /\ sessions = [s \in SessionIds |->
                     [exists |-> TRUE, theme |-> "Sunday", startTime |-> StartT,
                      endTime |-> EndT, isActive |-> TRUE,
                      secretAnswer |-> hashedAnswer(StoredAnswer), answerSet |-> StoredAnswer]]
    /\ members = [m \in MemberIds |->
                     IF m = 1
                     THEN [exists |-> TRUE, id |-> m, name |-> <<"member", m>>,
                           email |-> SeedEmails[m], pin |-> PinOf(m),
                           pinHash |-> hashPin(PinOf(m)), isActive |-> TRUE]
                     ELSE NoMember]
    /\ attendance = {}
    /\ pc = [p \in AllProcs |-> "idle"]
    /\ req = [p \in AllProcs |-> NoRequest]
    /\ psess = [p \in AllProcs |-> NoSession]
    /\ pmem = [p \in AllProcs |-> NoMember]
    /\ result = [p \in AllProcs |-> NoResult]
    /\ resp = NoReply
    /\ okLog = {}
    /\ attempts = [p \in AllProcs |-> 0]
    /\ parseResult = NoParseResult
    /\ updateData = [p \in AllProcs |-> NoUpdateData]
    /\ pinLimiter = NoHits

\* The uploads of the directory: files of one row.
DirectoryFiles == { file \in Files : Len(file) = 1 }

NextDirectory ==
    \/ Tick(StartT)
    \/ \E email \in RequestEmails : CreateMemberFindEmail(1, email)
    \/ \E pin \in GeneratedPins : CreateMemberPin(1, pin)
    \/ CreateMemberInsert(1)
    \/ \E file \in DirectoryFiles : UploadMembers(file)
    \/ \E pin \in GeneratedPins : UploadParseRow(pin)
    \/ UploadFindEmail
    \/ UploadInsert
    \/ \E mid \in MemberIds : ResendPin(mid)
    \/ ResendPinLog
    \/ \E p \in Procs \ {1}, pin \in MemberPins : SubmitFindSession(p, 1, pin)
    \/ \E p \in Procs : SubmitCheckSession(p)
    \/ \E p \in Procs : SubmitFindMember(p)
    \/ \E p \in Procs : SubmitFindAttendance(p)
    \/ \E p \in Procs : SubmitCreate(p)
    \/ \E mid \in MemberIds : UpdateMember(mid, {TRUE})
    \/ \E mid \in MemberIds : DeleteMember(mid)

SpecDirectory == InitPin /\ [][NextDirectory]_vars

(***************************************************************************)
(* generateUniquePin followed through its whole loop: the createMember     *)
(* request of process 1 against a directory that holds the first seeded    *)
(* member, while the createMember requests of the other processes add to   *)
(* it.  Every lookup of process 1 that is due is made.                     *)
(***************************************************************************)
NextPin ==
    \/ \E p \in Procs, email \in RequestEmails : CreateMemberFindEmail(p, email)
    \/ \E d \in RandomDraws : GenerateMemberPin(1, d)
    \/ \E p \in Procs \ {1}, pin \in GeneratedPins : CreateMemberPin(p, pin)
    \/ \E p \in Procs : CreateMemberInsert(p)

SpecPin ==
    InitPin /\ [][NextPin]_vars /\ WF_vars(\E d \in RandomDraws : GenerateMemberPin(1, d))

(***************************************************************************)
(* Properties of the attendance recorder, checked under Spec.              *)
(***************************************************************************)
\* The member a request's PIN resolves to (PINs never change).
MemberOfPin(pin) == FindMemberByPin(pin).id

\* The finished submit calls for session sid and member mid that got past
\* the session and member checks.
Recorded(sid, mid) ==
    { p \in Procs : /\ pc[p] = "done"
                    /\ req[p].sessionId = sid
                    /\ MemberOfPin(req[p].pin) = mid
                    /\ result[p].code \in {201, 409, 500} }

\* C1: in every reachable state the attendance store holds at most one
\* record per (sessionId, memberId) pair.
C1_UniquePair ==
    \A a, b \in attendance :
        (a.sessionId = b.sessionId /\ a.memberId = b.memberId) => a = b

\* Two calls for one pair both passed the pre-check; one inserted and the
\* other was turned away by the store, which holds one record for the pair.
C1_Witness ==
    \E p, q \in Procs :
        /\ p # q
        /\ pc[p] = "done" /\ pc[q] = "done"
        /\ req[p].sessionId = req[q].sessionId /\ req[p].pin = req[q].pin
        /\ result[p].code = 201
        /\ result[q].code = 409 /\ result[q].checkedInAt = NoTime
        /\ Cardinality(AttendanceOf(req[p].sessionId, MemberOfPin(req[p].pin))) = 1

\* C2: of the submit calls with the same valid PIN of an active member
\* against the same open (still stored) session, exactly one returns 201
\* and every other returns 409 'Already checked in'; none returns an
\* internal error, whatever the interleaving of lookups and inserts.
C2_ExactlyOneAccepted ==
    \A sid \in SessionIds, mid \in MemberIds :
        (FindSession(sid).exists /\ Recorded(sid, mid) # {}) =>
            /\ Cardinality({p \in Recorded(sid, mid) : result[p].code = 201}) = 1
            /\ \A p \in Recorded(sid, mid) :
                  result[p].code # 201 =>
                      result[p].code = 409 /\ result[p].error = "Already checked in"

\* Every process ran a submit for the same pair; all finished, one with 201
\* and the rest with 409, one of them turned away at the insert.
C2_Witness ==
    /\ \A p \in Procs :
          /\ pc[p] = "done"
          /\ req[p].sessionId = req[1].sessionId /\ req[p].pin = req[1].pin
          /\ result[p].code \in {201, 409}
          /\ ~req[p].after
    /\ \E p \in Procs : result[p].code = 409 /\ result[p].checkedInAt = NoTime

\* C3 (as claimed): every submit call rejected as a duplicate check-in
\* returns the check-in timestamp of the original attendance record of its
\* (session, member) pair, whether it was rejected by the pre-check or by
\* the storage uniqueness constraint.
C3_DuplicateReturnsTimestamp ==
    \A p \in Procs :
        (pc[p] = "done" /\ result[p].code = 409) =>
            \E a \in AttendanceOf(req[p].sessionId, MemberOfPin(req[p].pin)) :
                result[p].checkedInAt = a.checkedInAt

\* The session, member and window rejections of submitAttendance.
GateErrors ==
    {"Session not found", "Session inactive", "Outside check-in window", "Member inactive"}

\* C4: once a submit for (S, p) has succeeded with timestamp t1, a later
\* submit for S with the same PIN that is not turned away because S is
\* closed or the member inactive is rejected as a duplicate check-in that
\* carries checkedInAt = t1, and no step of it changes the attendance store.
C4_LaterSubmitIsDuplicate ==
    [][\A p \in Procs :
          /\ (req[p].after /\ pc'[p] # pc[p]) => attendance' = attendance
          /\ (req[p].after /\ pc[p] # "done" /\ pc'[p] = "done"
                /\ result'[p].error \notin GateErrors) =>
                /\ result'[p].code = 409
                /\ result'[p].error = "Already checked in"
                /\ \E q \in Procs :
                      /\ pc[q] = "done" /\ result[q].code = 201
                      /\ req[q].sessionId = req[p].sessionId /\ req[q].pin = req[p].pin
                      /\ result'[p].checkedInAt = result[q].checkedInAt
                      /\ result[q].checkedInAt # NoTime]_vars

\* A call that arrived after the first one's success, at a later instant,
\* was answered with the first call's timestamp.
C4_Witness ==
    \E p, q \in Procs :
        /\ pc[p] = "done" /\ pc[q] = "done"
        /\ req[p].after /\ ~req[q].after
        /\ result[q].code = 201
        /\ result[p].code = 409
        /\ result[p].checkedInAt = result[q].checkedInAt
        /\ result[q].checkedInAt < now

(***************************************************************************)
(* Properties of the check-in window, checked under SpecWindow.            *)
(***************************************************************************)
FiveMinutes == 5 * 60 * 1000

\* startTime - 5 minutes <= t <= endTime, both ends included.
InWindow(session, t) == session.startTime - FiveMinutes <= t /\ t <= session.endTime

OutsideWindowError == "Outside check-in window"

\* C5: for every active session and the current instant, check-in is
\* allowed (getSessionInfo reports canCheckIn, and validateSession,
\* verifySecretAnswer and submitAttendance do not fail with 'Outside
\* check-in window') if and only if startTime - 5 minutes <= now <= endTime.
C5_WindowInclusive ==
    \A sid \in SessionIds :
        LET session == FindSession(sid)
        IN  (session.exists /\ session.isActive) =>
              /\ getSessionInfo(sid, session, now).canCheckIn <=> InWindow(session, now)
              /\ validateSession(sid, session, now).error # OutsideWindowError
                    <=> InWindow(session, now)
              /\ \A answer \in AnswerInputs :
                    verifySecretAnswer(sid, session, now, answer).error # OutsideWindowError
                        <=> InWindow(session, now)
              /\ submitSessionCheck(session, now).error # OutsideWindowError
                    <=> InWindow(session, now)

\* At the first instant of the window, startTime - 5 minutes exactly,
\* getSessionInfo reported canCheckIn and a submit call passed the window
\* check and recorded attendance.
C5_Witness ==
    \E sid \in SessionIds :
        /\ sessions[sid].startTime = StartT /\ sessions[sid].endTime = EndT
        /\ now = StartT - FiveMinutes
        /\ \E a \in attendance : a.sessionId = sid /\ a.checkedInAt = now
        /\ resp.op = "info" /\ resp.canCheckIn

\* C6: for an inactive session check-in is allowed at no instant:
\* getSessionInfo reports canCheckIn = false and status 'inactive', and
\* validateSession, verifySecretAnswer and submitAttendance fail with
\* 'Session inactive', wherever the current time lies.
C6_InactiveNeverOpen ==
    \A sid \in SessionIds :
        LET session == FindSession(sid)
        IN  (session.exists /\ ~session.isActive) =>
              /\ ~getSessionInfo(sid, session, now).canCheckIn
              /\ getSessionInfo(sid, session, now).status = "inactive"
              /\ validateSession(sid, session, now).error = "Session inactive"
              /\ \A answer \in AnswerInputs :
                    verifySecretAnswer(sid, session, now, answer).error = "Session inactive"
              /\ submitSessionCheck(session, now).error = "Session inactive"

\* Inside the time window of an inactive session, getSessionInfo answered
\* 'inactive' and a submit call was turned away with 'Session inactive'.
C6_Witness ==
    \E sid \in SessionIds :
        /\ ~sessions[sid].isActive
        /\ InWindow(sessions[sid], now)
        /\ resp.op = "info" /\ resp.status = "inactive" /\ ~resp.canCheckIn
        /\ \E p \in Procs : pc[p] = "done" /\ result[p].error = "Session inactive"

\* C7: submitAttendance checks the window against the current time on every
\* call: when its session checks run on an active session at an instant
\* outside [startTime - 5 minutes, endTime], the call ends there with
\* 'Outside check-in window' and the attendance store is unchanged, also when
\* validateSession and verifySecretAnswer succeeded for the session before.
C7_SubmitRechecksWindow ==
    [][\A p \in Procs :
          (/\ pc[p] = "session" /\ pc'[p] # "session"
           /\ psess[p].exists /\ psess[p].isActive
           /\ ~InWindow(psess[p], now)) =>
              /\ pc'[p] = "done"
              /\ result'[p].code = 400
              /\ result'[p].error = OutsideWindowError
              /\ attendance' = attendance]_vars

\* The session was validated and its answer verified while the window was
\* open; the submit that followed after endTime was turned away and the
\* store is empty.
C7_Witness ==
    \E p \in Procs :
        /\ pc[p] = "done"
        /\ result[p].error = OutsideWindowError
        /\ <<"validate", req[p].sessionId>> \in okLog
        /\ <<"verify", req[p].sessionId>> \in okLog
        /\ now > sessions[req[p].sessionId].endTime
        /\ sessions[req[p].sessionId].isActive
        /\ attendance = {}

\* C8: verifySecretAnswer on a stored active session at an instant outside
\* [startTime - 5 minutes, endTime] fails with 'Outside check-in window' for
\* every answer, right or wrong; it reports neither 'Incorrect answer' nor
\* correct = true.
C8_VerifyOutsideWindow ==
    \A sid \in SessionIds :
        LET session == FindSession(sid)
        IN  (session.exists /\ session.isActive /\ ~InWindow(session, now)) =>
              \A answer \in AnswerInputs :
                  LET r == verifySecretAnswer(sid, session, now, answer)
                  IN  r.code = 400 /\ r.error = OutsideWindowError /\ ~r.ok

\* Before the clock first moved, six minutes ahead of the start, an answer
\* was submitted and turned away for the window.
C8_Witness ==
    /\ now = FirstInstant
    /\ resp.op = "verify"
    /\ resp.error = OutsideWindowError
    /\ FindSession(resp.sid).isActive
    /\ ~InWindow(FindSession(resp.sid), now)

\* C9: validateSession on a stored active session reports sub-reason
\* 'not_started' exactly when now < startTime - 5 minutes and 'expired'
\* exactly when now > endTime; for start T and end T + 2h it answers
\* not_started at T - 6min, valid at T - 4min and expired at T + 2h + 1s.
C9_ValidateSubReason ==
    \A sid \in SessionIds :
        LET session == FindSession(sid)
            r == validateSession(sid, session, now)
            T == session.startTime
        IN  (session.exists /\ session.isActive) =>
              /\ r.status = "not_started" <=> now < session.startTime - FiveMinutes
              /\ r.status = "expired" <=> now > session.endTime
              /\ session.endTime = T + 2 * 60 * 60 * 1000 =>
                    /\ now = T - 6 * 60 * 1000 =>
                          r.error = OutsideWindowError /\ r.status = "not_started"
                    /\ now = T - 4 * 60 * 1000 => r.ok /\ r.code = 200
                    /\ now = T + 2 * 60 * 60 * 1000 + 1000 =>
                          r.error = OutsideWindowError /\ r.status = "expired"

\* One second after the end of a two-hour session that had been validated
\* while open, validateSession answered 'expired'.
C9_Witness ==
    \E sid \in SessionIds :
        /\ sessions[sid].isActive
        /\ sessions[sid].endTime = sessions[sid].startTime + 2 * 60 * 60 * 1000
        /\ now = sessions[sid].endTime + 1000
        /\ <<"validate", sid>> \in okLog
        /\ resp.op = "validate" /\ resp.sid = sid /\ resp.status = "expired"

\* C10 (as claimed), at the states where getSessionInfo has just answered:
\* the status evaluators report 'upcoming' only when
\* now < startTime - 5 minutes and 'active' at every instant of
\* [startTime - 5 minutes, endTime] of an active session, so that status is
\* 'active' if and only if canCheckIn is true.
C10_StatusMatchesCanCheckIn ==
    \A sid \in SessionIds :
        LET session == FindSession(sid)
            info == getSessionInfo(sid, session, now)
        IN  (session.exists /\ resp = info) =>
              /\ resp.status = "upcoming" => now < session.startTime - FiveMinutes
              /\ (session.isActive /\ InWindow(session, now)) => resp.status = "active"
              /\ resp.status = "active" <=> resp.canCheckIn
              /\ getSessionStatus(session, now) = "upcoming"
                    => now < session.startTime - FiveMinutes
              /\ (session.isActive /\ InWindow(session, now))
                    => getSessionStatus(session, now) = "active"

(***************************************************************************)
(* The configured buffer: the seed script stores the system setting        *)
(* session_buffer_minutes; no handler reads it.                            *)
(***************************************************************************)
session_buffer_minutes == 15

\* The check-in window under the configured buffer.
ConfiguredWindow(session, t) ==
    session.startTime - session_buffer_minutes * 60 * 1000 <= t /\ t <= session.endTime

\* C11 (as claimed), at the states where validateSession has just answered
\* for a stored active session: validateSession, verifySecretAnswer,
\* submitAttendance and getSessionInfo agree on whether the current instant
\* is inside the check-in window, and the buffer that opens their window is
\* the configured session buffer value.
C11_SingleConfiguredBuffer ==
    \A sid \in SessionIds :
        LET session == FindSession(sid)
            v == validateSession(sid, session, now)
            inside == v.error # OutsideWindowError
        IN  (session.exists /\ session.isActive /\ resp = v) =>
              /\ \A answer \in AnswerInputs :
                    verifySecretAnswer(sid, session, now, answer).error # OutsideWindowError
                        <=> inside
              /\ submitSessionCheck(session, now).error # OutsideWindowError <=> inside
              /\ getSessionInfo(sid, session, now).canCheckIn <=> inside
              /\ inside <=> ConfiguredWindow(session, now)

(***************************************************************************)
(* Properties of submitAttendance, checked under SpecSubmit.               *)
(***************************************************************************)
\* Process p's call ends at this step with the given status code and error.
EndsWith(p, code, error) ==
    /\ pc'[p] = "done"
    /\ result'[p] = SubmitReply(code, error, NoTime, "", "")

\* C12: when the member checks of a submit call that passed the session
\* checks find the member holding the submitted PIN inactive, the call ends
\* there with 'Member inactive' (not 'Invalid PIN') and the attendance store
\* is unchanged.
C12_InactiveMemberRejected ==
    [][\A p \in Procs :
          LET member == FindMemberByPin(req[p].pin)
          IN  (/\ pc[p] = "member" /\ pc'[p] # "member"
               /\ member.exists /\ member.pin = req[p].pin /\ ~member.isActive) =>
                  /\ EndsWith(p, 400, "Member inactive")
                  /\ attendance' = attendance]_vars

\* A deactivated member's own PIN was submitted to an open active session
\* and turned away with 'Member inactive'; the store has no record for the
\* pair.
C12_Witness ==
    \E p \in Procs :
        LET member == FindMemberByPin(req[p].pin)
            session == FindSession(req[p].sessionId)
        IN  /\ pc[p] = "done"
            /\ result[p].error = "Member inactive"
            /\ member.exists /\ ~member.isActive /\ verifyPin(req[p].pin, member.pinHash)
            /\ session.exists /\ session.isActive /\ InWindow(session, now)
            /\ AttendanceOf(req[p].sessionId, member.id) = {}

\* Exactly five characters, each a decimal digit.
FiveDigits(pin) ==
    /\ Len(pin) = 5
    /\ \A i \in 1..Len(pin) :
          pin[i] \in {"0", "1", "2", "3", "4", "5", "6", "7", "8", "9"}

\* C13: a submit request whose PIN is not exactly five decimal digits ends
\* on arrival with a validation error: the controller's session lookup and
\* member lookup are not made for it and the attendance store is unchanged.
C13_MalformedPinRejectedFirst ==
    [][\A p \in Procs :
          (pc[p] = "idle" /\ pc'[p] # "idle" /\ ~FiveDigits(req'[p].pin)) =>
              /\ EndsWith(p, 400, "Validation error")
              /\ psess'[p] = NoSession
              /\ pmem'[p] = NoMember
              /\ attendance' = attendance]_vars

\* A six-digit PIN that starts with a member's PIN was sent to a stored,
\* open, active session and turned away with a validation error.
C13_Witness ==
    \E p \in Procs :
        LET session == FindSession(req[p].sessionId)
        IN  /\ pc[p] = "done"
            /\ Len(req[p].pin) = 6
            /\ result[p].error = "Validation error"
            /\ session.exists /\ session.isActive /\ InWindow(session, now)
            /\ attendance = {}

\* C14: submitAttendance makes its checks in the order session not found,
\* session inactive, outside check-in window, invalid PIN (no member),
\* member inactive, invalid PIN (hash mismatch), already checked in, and
\* ends with the first that fails, each under its own error; a duplicate is
\* reported as 'Already checked in', never as 'Invalid PIN', and the reply
\* to a missing, inactive or out-of-window session does not depend on the
\* PIN.
C14_CheckOrder ==
    [][\A p \in Procs :
          /\ (pc[p] = "session" /\ pc'[p] # "session") =>
                IF ~psess[p].exists THEN EndsWith(p, 404, "Session not found")
                ELSE IF ~psess[p].isActive THEN EndsWith(p, 400, "Session inactive")
                ELSE IF ~InWindow(psess[p], now) THEN EndsWith(p, 400, OutsideWindowError)
                ELSE pc'[p] = "member"
          /\ (pc[p] = "member" /\ pc'[p] # "member") =>
                LET member == FindMemberByPin(req[p].pin)
                IN  IF ~member.exists THEN EndsWith(p, 400, "Invalid PIN")
                    ELSE IF ~member.isActive THEN EndsWith(p, 400, "Member inactive")
                    ELSE IF member.pinHash # bcryptHash(req[p].pin)
                    THEN EndsWith(p, 400, "Invalid PIN")
                    ELSE pc'[p] = "attendance"
          /\ (pc[p] = "attendance" /\ pc'[p] # "attendance") =>
                IF AttendanceOf(req[p].sessionId, pmem[p].id) # {}
                THEN /\ pc'[p] = "done"
                     /\ result'[p].code = 409
                     /\ result'[p].error = "Already checked in"
                ELSE pc'[p] = "create"
          /\ \A m \in MemberIds :
                LET outOfSync == [members[m] EXCEPT !.pinHash = bcryptHash(UnknownPin),
                                                    !.isActive = TRUE]
                IN  members[m].exists =>
                      /\ submitMemberCheck(members[m].pin, outOfSync).error = "Invalid PIN"
                      /\ submitMemberCheck(members[m].pin,
                                           [outOfSync EXCEPT !.isActive = FALSE]).error
                            = "Member inactive"]_vars

\* A PIN that no member holds was submitted after the end of a session that
\* had been deactivated once it had attendance: of the three failing checks
\* the first, 'Session inactive', was reported.
C14_Witness ==
    \E p \in Procs :
        /\ pc[p] = "done"
        /\ req[p].pin = UnknownPin
        /\ result[p].error = "Session inactive"
        /\ ~InWindow(FindSession(req[p].sessionId), now)
        /\ attendance # {}

VerdictError(session, t, answerGiven, answer) ==
    IF ~session.exists THEN "Session not found"
    ELSE IF ~session.isActive THEN "Session inactive"
    ELSE IF ~InWindow(session, t) THEN OutsideWindowError
    ELSE IF answerGiven /\ session.secretAnswer # bcryptHash(normalizeAnswer(answer))
    THEN "Incorrect answer"
    ELSE ""

\* C16: validateSession, verifySecretAnswer and getSessionInfo leave the
\* member directory, the session directory and the attendance store
\* unchanged, and the verdict of each call is determined by its input, the
\* stored session and the current instant alone, whatever calls came before.
C16_ReadOnlyIdempotent ==
    [][/\ (resp' # resp \/ okLog' # okLog) => UNCHANGED <<sessions, members, attendance>>
       /\ \A sid \in ReqSessionIds :
             LET session == FindSession(sid)
             IN  /\ ValidateSession(sid) =>
                       /\ resp'.error = VerdictError(session, now, FALSE, <<>>)
                       /\ resp'.ok <=> resp'.error = ""
                 /\ \A answer \in AnswerInputs :
                       VerifySecretAnswer(sid, answer) =>
                           /\ resp'.error = VerdictError(session, now, TRUE, answer)
                           /\ resp'.ok <=> resp'.error = ""
                 /\ GetSessionInfo(sid) =>
                       resp'.canCheckIn <=> VerdictError(session, now, FALSE, <<>>) = ""]_vars

\* verifySecretAnswer answered correct for a session that validateSession
\* had never been called on successfully, after a submit call had finished.
C16_Witness ==
    /\ resp.op = "verify" /\ resp.ok
    /\ <<"validate", resp.sid>> \notin okLog
    /\ pc[1] = "done"
    /\ attendance = {}

\* C17: a submit call that ends with 201 adds exactly one record to the
\* attendance store and changes no other: the record binds the request's
\* session to the one member whose stored PIN is the submitted PIN, its
\* timestamp is the instant of the insert (not earlier than the instant the
\* request was made, as the clock never runs backwards), and the reply
\* carries that member's name, the session's theme and the record's
\* timestamp.
C17_SuccessEffect ==
    [][/\ now' >= now
       /\ \A p \in Procs :
             (pc[p] # "done" /\ pc'[p] = "done" /\ result'[p].code = 201) =>
                 \E a \in attendance' \ attendance :
                     /\ attendance' = attendance \cup {a}
                     /\ a.sessionId = req[p].sessionId
                     /\ \E m \in MemberIds :
                           /\ members[m].exists /\ members[m].pin = req[p].pin
                           /\ \A k \in MemberIds :
                                 (members[k].exists /\ members[k].pin = req[p].pin) => k = m
                           /\ a.memberId = members[m].id
                           /\ result'[p].name = members[m].name
                     /\ a.checkedInAt = now
                     /\ result'[p].checkedInAt = a.checkedInAt
                     /\ result'[p].theme = sessions[req[p].sessionId].theme]_vars

\* Two members are checked in to the session, the second at a later instant
\* than the first, by a call that arrived before that instant.
C17_Witness ==
    \E p, q \in Procs :
        /\ pc[p] = "done" /\ pc[q] = "done"
        /\ result[p].code = 201 /\ result[q].code = 201
        /\ result[p].checkedInAt < result[q].checkedInAt
        /\ result[q].name = members[MemberOfPin(req[q].pin)].name
        /\ Cardinality(attendance) = 2

(***************************************************************************)
(* Properties of the attendance store under the admin operations, checked  *)
(* under SpecAdmin.                                                        *)
(***************************************************************************)
\* C18: no step removes or changes an attendance record, and a step that
\* adds to the store is the insert of a submitAttendance call that ends with
\* 201 and adds one record; checked with updateSession, deleteSession (also
\* racing with the insert), updateMember and deleteMember interleaved.
C18_AttendanceOnlyGrows ==
    [][/\ attendance \subseteq attendance'
       /\ \A a \in attendance : \A b \in attendance' : b.id = a.id => b = a
       /\ attendance' # attendance =>
             /\ Cardinality(attendance' \ attendance) = 1
             /\ \E p \in Procs :
                   pc[p] = "create" /\ pc'[p] = "done" /\ result'[p].code = 201]_vars

\* deleteSession read the session while it had no attendance and went on to
\* delete it; a check-in was recorded in between, the deletion was refused
\* and the record and its session are still stored, the member since
\* deactivated.
C18_Witness ==
    /\ pc[AdminProc] = "done"
    /\ result[AdminProc].code = 500
    /\ \E a \in attendance :
          /\ a.sessionId = req[AdminProc].sessionId
          /\ FindSession(a.sessionId).exists
          /\ ~members[a.memberId].isActive

(***************************************************************************)
(* Properties of the secret answer, checked under SpecAnswer.              *)
(***************************************************************************)
\* C19 (as claimed): for a session whose secret answer was set from string
\* a, an answer check inside the window of the active session reports
\* correct for the submitted string b if and only if
\* lowercase(trim(a)) = lowercase(trim(b)).
C19_AnswerNormalisation ==
    [][\A sid \in SessionIds, b \in VerifyAnswers :
          LET session == FindSession(sid)
          IN  (/\ VerifySecretAnswer(sid, b)
               /\ session.exists /\ session.isActive /\ InWindow(session, now)) =>
                  (resp'.ok <=> toLowerCase(trim(session.answerSet)) = toLowerCase(trim(b)))]_vars

(***************************************************************************)
(* C20: in every reachable state no two members have the same PIN, under   *)
(* any sequence and interleaving of createMember calls and uploads,        *)
(* including two concurrent creations that each generated their PIN before *)
(* the other was stored and two rows of one file whose PINs were both      *)
(* generated before either row was inserted.                               *)
(***************************************************************************)
C20_PinUnique ==
    \A m1, m2 \in MemberIds :
        (/\ members[m1].exists /\ members[m2].exists
         /\ members[m1].pin = members[m2].pin) => m1 = m2

\* Two createMember requests drew the same PIN for different e-mail
\* addresses, one was stored and the store refused the other; and the
\* store refused a row of an upload for its PIN after a row with the same
\* PIN from the same file was stored.
C20_Witness ==
    /\ \E p, q \in Procs :
          /\ pc[p] = "done" /\ result[p].code = 201
          /\ pc[q] = "done" /\ result[q].code = 500
          /\ pmem[p].pin # <<>>
          /\ pmem[q].pin = pmem[p].pin /\ pmem[q].email # pmem[p].email
          /\ ~FindMemberByEmail(pmem[q].email).exists
          /\ FindMemberByPin(pmem[p].pin).email = pmem[p].email
    /\ pc[AdminProc] = "done"
    /\ parseResult.totalRows = MaxRows /\ parseResult.errors = 0
    /\ parseResult.imported = 1
    /\ \E i \in 1..Len(parseResult.importErrors), m \in MemberIds :
          /\ parseResult.importErrors[i].error = "pin"
          /\ members[m].exists /\ members[m].pin = parseResult.importErrors[i].pin
          /\ \A p \in Procs : members[m].email # pmem[p].email

(***************************************************************************)
(* C21: in every reachable state every stored session has endTime strictly *)
(* after startTime, after any sequence and interleaving of createSession   *)
(* and updateSession calls, including partial updates that change only     *)
(* startTime or only endTime and two such updates of the same session      *)
(* running concurrently.                                                   *)
(***************************************************************************)
C21_EndAfterStart ==
    \A sid \in SessionIds :
        sessions[sid].exists => sessions[sid].endTime > sessions[sid].startTime

(***************************************************************************)
(* C22: deleteSession on a session that has at least one attendance record *)
(* only sets isActive to false, keeping the session and all its attendance *)
(* records; deleteSession on a session with no attendance record removes   *)
(* the session; deleteSession on an unknown id returns not found and       *)
(* changes nothing.  The session is judged when deleteSession writes.      *)
(***************************************************************************)
C22_DeleteSession ==
    [][/\ \A sid \in ReqSessionIds :
            (DeleteSession(sid) /\ ~FindSession(sid).exists) =>
                /\ result'[AdminProc].code = 404
                /\ UNCHANGED <<sessions, members, attendance>>
       /\ DeleteSessionWrite =>
            LET sid == req[AdminProc].sessionId
            IN  /\ attendance' = attendance
                /\ IF \E a \in attendance : a.sessionId = sid
                   THEN sessions' = [sessions EXCEPT ![sid].isActive = FALSE]
                   ELSE sessions' = [sessions EXCEPT ![sid] = NoSession]]_vars

(***************************************************************************)
(* C23: members are never hard-deleted: deleteMember only sets the         *)
(* member's isActive flag to false, so across any sequence of operations   *)
(* the set of member identities never shrinks and a member with attendance *)
(* history always remains resolvable by id.                                *)
(***************************************************************************)
C23_MembersNeverDeleted ==
    [][/\ \A mid \in MemberIds :
            (DeleteMember(mid) /\ members[mid].exists) =>
                members' = [members EXCEPT ![mid].isActive = FALSE]
       /\ \A m \in MemberIds :
            members[m].exists => members'[m].exists /\ members'[m].id = members[m].id
       /\ \A a \in attendance' :
            members'[a.memberId].exists /\ members'[a.memberId].id = a.memberId]_vars

\* A member with an attendance record and a member without one have both
\* been deactivated by deleteMember and are both still stored.
C23_Witness ==
    /\ \E a \in attendance : ~members[a.memberId].isActive /\ members[a.memberId].exists
    /\ \E m \in MemberIds :
          /\ ~members[m].isActive /\ members[m].exists
          /\ \A a \in attendance : a.memberId # m

(***************************************************************************)
(* C24: from one originating address at most 3 submit requests within a    *)
(* 5-minute limiter window reach PIN verification; every further submit    *)
(* request from that address in the window is answered with the rate-limit *)
(* error ('Too many PIN attempts'), which is distinct from 'Invalid PIN',  *)
(* and performs no session lookup, no member lookup and no attendance      *)
(* write.                                                                  *)
(***************************************************************************)
C24_PinAttemptsLimited ==
    [][/\ pinLimiter'.passed <= 3
       /\ pinLimiter'.resetTime # pinLimiter.resetTime =>
             /\ pinLimiter'.resetTime = now + 5 * 60 * 1000
             /\ pinLimiter.resetTime <= now
       /\ \A p \in Procs :
            (/\ PinLimiter(p)
             /\ pinLimiter.resetTime # NoTime /\ now < pinLimiter.resetTime
             /\ pinLimiter.passed = 3) =>
                /\ pc'[p] = "done"
                /\ result'[p].code = 429
                /\ result'[p].error = "Too many PIN attempts"
                /\ result'[p].error # "Invalid PIN"
                /\ req'[p] = NoRequest /\ psess'[p] = NoSession /\ pmem'[p] = NoMember
                /\ UNCHANGED <<sessions, members, attendance>>]_vars

\* In one window three requests from the address have reached PIN
\* verification, one of them was answered 'Invalid PIN', and a further
\* request was answered by the limiter.
C24_Witness ==
    /\ pinLimiter.passed = 3
    /\ pinLimiter.totalHits > 3
    /\ now < pinLimiter.resetTime
    /\ \E p, q \in Procs :
          /\ pc[p] = "done" /\ result[p].code = 429
          /\ pc[q] = "done" /\ result[q].error = "Invalid PIN"

(***************************************************************************)
(* C25: a submitAttendance call that ends in any rejection (session not    *)
(* found, session inactive, outside window, invalid PIN, member inactive,  *)
(* already checked in) or in an internal error leaves the attendance       *)
(* store, the member directory and the session directory exactly as they   *)
(* were: no step of the call other than the insert that is answered 201    *)
(* changes them.                                                           *)
(***************************************************************************)
C25_RejectionChangesNothing ==
    [][\A p \in Procs :
          (/\ pc[p] \in {"idle", "session", "member", "attendance", "create"}
           /\ pc'[p] # pc[p]
           /\ result'[p].code # 201) =>
              UNCHANGED <<attendance, members, sessions>>]_vars

\* One call was rejected for its PIN, and another call ended in an internal
\* error: its session was deleted after it had been read.
C25_Witness ==
    /\ \E p \in Procs : pc[p] = "done" /\ result[p].error = "Invalid PIN"
    /\ \E p \in Procs :
          /\ pc[p] = "done" /\ result[p].code = 500
          /\ ~FindSession(req[p].sessionId).exists

(***************************************************************************)
(* C26: generateUniquePin always terminates after at most 100 directory    *)
(* lookups: it either returns a 5-digit numeric PIN (10000..99999, so it   *)
(* always satisfies the submit format of exactly 5 digits) that no member  *)
(* held at the moment of its lookup, or, when all 100 candidates were      *)
(* already taken, throws an error without returning a PIN.                 *)
(***************************************************************************)
C26_GenerateUniquePin ==
    /\ [][\A d \in RandomDraws :
            GenerateMemberPin(1, d) =>
               /\ attempts[1] < 100
               /\ IF pc'[1] = "insert"
                  THEN /\ pmem'[1].pin = randomPin(d)
                       /\ checkinSubmit(pmem'[1].pin) /\ pmem'[1].pin[1] # "0"
                       /\ \A m \in MemberIds : ~(members[m].exists /\ members[m].pin = pmem'[1].pin)
                  ELSE IF pc'[1] = "done"
                  THEN /\ FindMemberByPin(randomPin(d)).exists
                       /\ attempts[1] = 99 /\ attempts'[1] = 100
                       /\ result'[1].code = 500
                       /\ pmem'[1].pin = <<>>
                  ELSE /\ FindMemberByPin(randomPin(d)).exists
                       /\ attempts'[1] = attempts[1] + 1]_vars
    /\ (pc[1] = "pin") ~> (pc[1] # "pin")

\* generateUniquePin has thrown after its hundredth lookup found its
\* candidate taken, as the ninety-nine before.
C26_Witness ==
    /\ pc[1] = "done" /\ result[1].code = 500
    /\ attempts[1] = 100
    /\ pmem[1].pin = <<>>

(***************************************************************************)
(* C27: a member's PIN is permanent.  Once a member exists, no step of     *)
(* updateMember, deleteMember, resendPin or a check-in (nor any other      *)
(* step of the directory) changes that member's pin or pinHash.            *)
(***************************************************************************)
C27_PinPermanent ==
    [][\A m \in MemberIds :
         members[m].exists =>
            /\ members'[m].exists
            /\ members'[m].pin = members[m].pin
            /\ members'[m].pinHash = members[m].pinHash]_vars

\* A member created by a request was sent its PIN again, then deactivated,
\* and holds an attendance record, with the PIN it was created with.
C27_Witness ==
    /\ members[2].exists /\ ~members[2].isActive
    /\ members[2].pin \in GeneratedPins
    /\ pc[AdminProc] = "done" /\ result[AdminProc].code = 200
    /\ pmem[AdminProc].exists /\ pmem[AdminProc].id = 2
    /\ pmem[AdminProc].pin = members[2].pin
    /\ \E a \in attendance : a.memberId = 2

(***************************************************************************)
(* C28: in every reachable state every attendance record references a      *)
(* session that still exists and a member that still exists, with          *)
(* submitAttendance, deleteSession (count read before its delete) and      *)
(* deleteMember interleaved in every order.                                *)
(***************************************************************************)
C28_RecordsReferenceRows ==
    \A a \in attendance :
       /\ FindSession(a.sessionId).exists
       /\ a.memberId \in MemberIds
       /\ members[a.memberId].exists
       /\ members[a.memberId].id = a.memberId

\* deleteSession found a record of its session and deactivated the session,
\* deleteMember deactivated the record's member: both rows are still there.
C28_Witness ==
    /\ pc[AdminProc] = "done"
    /\ result[AdminProc].code = 200
    /\ \E a \in attendance :
          /\ a.sessionId = req[AdminProc].sessionId
          /\ FindSession(a.sessionId).exists
          /\ ~FindSession(a.sessionId).isActive
          /\ members[a.memberId].exists
          /\ ~members[a.memberId].isActive

(***************************************************************************)
(* C29: at the instant an attendance record is inserted, its session is    *)
(* active, the current time lies within [startTime - 5 minutes, endTime]   *)
(* of the session as stored at that instant, and the member is active,     *)
(* also when time passes or updateSession, deleteSession or deleteMember   *)
(* act between the checks of submitAttendance and its insert.              *)
(***************************************************************************)
C29_OpenAtInsert ==
    [][\A a \in attendance' \ attendance :
         LET session == FindSession(a.sessionId)
         IN  /\ session.exists /\ session.isActive
             /\ session.startTime - 5 * 60 * 1000 <= now
             /\ now <= session.endTime
             /\ members[a.memberId].exists
             /\ members[a.memberId].isActive]_vars

(***************************************************************************)
(* C30: in every state reached through createMember, uploadMembers,        *)
(* updateMember and deleteMember each member's stored pinHash is the hash  *)
(* of that member's stored pin; so in submitAttendance the verifyPin check *)
(* of a member found by its PIN never fails: a call whose member lookup    *)
(* finds a member is never answered 'Invalid PIN'.                         *)
(***************************************************************************)
C30_PinHashMatches ==
    /\ [](\A m \in MemberIds :
            members[m].exists =>
               /\ members[m].pinHash = hashPin(members[m].pin)
               /\ verifyPin(members[m].pin, members[m].pinHash))
    /\ [][\A p \in Procs :
            (/\ SubmitFindMember(p)
             /\ FindMemberByPin(req[p].pin).exists) =>
                /\ verifyPin(req[p].pin, FindMemberByPin(req[p].pin).pinHash)
                /\ ~(pc'[p] = "done" /\ result'[p].error = "Invalid PIN")]_vars

\* A member created by a request or an upload checked in with its PIN: the
\* hash check let it through.
C30_Witness ==
    /\ members[2].exists
    /\ members[2].pinHash = hashPin(members[2].pin)
    /\ \E a \in attendance : a.memberId = 2
    /\ \E p \in Procs : pc[p] = "done" /\ result[p].code = 201 /\ req[p].pin = members[2].pin

====
